---------------------------- MODULE Spec2Model ----------------------------
(* A model of the logging package of KusionStack/component-base:           *)
(*   logger.go   src/log/logger.go: the logger and its per-level methods;  *)
(*   config.go   src/unnamed/part_001: Configure, updateLogger, prepZap    *)
(*               and the function table register;                          *)
(*   options.go  src/unnamed/part_002: Level, the name maps, Options and   *)
(*               DefaultOptions.                                           *)
(* Goroutines are the members of Threads; every atomic.Value load or store *)
(* of the code is one step of the model.                                   *)
(* Specifications: Spec (log calls, Configure, the setters and the         *)
(* replacement of the exit function), SpecBoot (from before init() on),    *)
(* SpecOrder (numbered log calls of one goroutine), SpecLevels (the name   *)
(* maps), SpecSinks (file sinks, Sync and Close), SpecCapture (zap's       *)
(* global logger and the standard log package), SpecBeep (a second logger  *)
(* beside the default one), SpecGate (the level-gated core) and SpecRotate *)
(* (the rotating log file).                                                *)
EXTENDS Integers, Sequences, FiniteSets, TLC

(***************************************************************************)
(* Bounds of the model.                                                    *)
(***************************************************************************)
\* Number of operations (log calls, Configure calls, setters, table
\* replacements) started in one behaviour.
MaxOps == 2

\* Number of log calls the goroutine of SpecOrder issues one after another.
MaxCalls == 2

\* Goroutines.
Threads == {1, 2}

(***************************************************************************)
(* options.go: Level and the name maps.                                    *)
(***************************************************************************)
NoneLevel == 0
FatalLevel == 1
ErrorLevel == 2
WarnLevel == 3
InfoLevel == 4
DebugLevel == 5

Levels == {NoneLevel, FatalLevel, ErrorLevel, WarnLevel, InfoLevel, DebugLevel}

levelToString ==
    [lv \in Levels |->
        CASE lv = DebugLevel -> "debug"
          [] lv = InfoLevel  -> "info"
          [] lv = WarnLevel  -> "warn"
          [] lv = ErrorLevel -> "error"
          [] lv = FatalLevel -> "fatal"
          [] lv = NoneLevel  -> "none"]

levelListString == {"debug", "info", "warn", "error", "fatal", "none"}

stringToLevel ==
    [s \in levelListString |->
        CASE s = "debug" -> DebugLevel
          [] s = "info"  -> InfoLevel
          [] s = "warn"  -> WarnLevel
          [] s = "error" -> ErrorLevel
          [] s = "fatal" -> FatalLevel
          [] s = "none"  -> NoneLevel]

\* A variant of LookupLevel: the ok of the map read is taken to be true,
\* so that a missing key is read as the zero value of Level.
LookupLevelCoerces(s) ==
    IF s \in DOMAIN stringToLevel
    THEN [level |-> stringToLevel[s], ok |-> TRUE]
    ELSE [level |-> NoneLevel, ok |-> TRUE]

\* Go's two-valued map read "level, ok := stringToLevel[s]": a missing key
\* yields the zero value of Level (NoneLevel) and ok = false.
LookupLevel(s) ==
    IF s \in DOMAIN stringToLevel
    THEN [level |-> stringToLevel[s], ok |-> TRUE]
    ELSE [level |-> NoneLevel, ok |-> FALSE]

\* zapcore.Level values a logger method passes to output, and toLevel, the
\* map output uses to compare them with the stack-trace level.
ZapLevels == {"zap.debug", "zap.info", "zap.warn", "zap.error", "zap.fatal"}

toLevel ==
    [z \in ZapLevels |->
        CASE z = "zap.fatal" -> FatalLevel
          [] z = "zap.error" -> ErrorLevel
          [] z = "zap.warn"  -> WarnLevel
          [] z = "zap.info"  -> InfoLevel
          [] z = "zap.debug" -> DebugLevel]

(***************************************************************************)
(* options.go: Options and DefaultOptions.                                 *)
(***************************************************************************)
DefaultOutputPath == "stdout"
DefaultErrorOutputPath == "stderr"
DefaultRotationMaxAge == 30
DefaultRotationMaxSize == 100 * 1024 * 1024
DefaultRotationMaxBackups == 1000

DefaultOptions ==
    [OutputPath         |-> DefaultOutputPath,
     ErrorOutputPath    |-> DefaultErrorOutputPath,
     RotateOutputPath   |-> "",
     RotationMaxSize    |-> DefaultRotationMaxSize,
     RotationMaxAge     |-> DefaultRotationMaxAge,
     RotationMaxBackups |-> DefaultRotationMaxBackups,
     OutputLevel        |-> levelToString[InfoLevel],
     StackTraceLevel    |-> levelToString[NoneLevel],
     LogCaller          |-> FALSE,
     JSONEncoding       |-> FALSE]

\* zap.Open(path): the names stdout and stderr always open; any other path
\* is opened with os.OpenFile, which fails for the empty name and for a
\* path whose directory does not exist.
OpenablePaths == {"stdout", "stderr", "/log/app.log"}

CanOpen(path) == path \in OpenablePaths

\* zap.Open hands out os.Stdout and os.Stderr for the names stdout and
\* stderr, with a close function that does nothing; every other name is a
\* file that it opens, and that its close function closes.
IsFile(path) == path \notin {"stdout", "stderr"}

\* The table of opened files h after t's zap.Open(path) succeeded.
Opened(h, path, t) ==
    IF IsFile(path)
    THEN Append(h, [path |-> path, open |-> TRUE, by |-> t])
    ELSE h

\* The numbers of the files that Opened(h, path, t) has added to h.
NewIn(h, path) == IF IsFile(path) THEN {Len(h) + 1} ELSE {}

\* A variant of CloseErrorSink: the files stay open.
CloseErrorSinkNoOp(h, ns) == h

\* closeErrorSink(), config.go line 90: the files that line 81 opened are
\* closed.
CloseErrorSink(h, ns) ==
    [n \in DOMAIN h |-> IF n \in ns THEN [h[n] EXCEPT !.open = FALSE]
                                   ELSE h[n]]

\* The Options values handed to Configure in the model: the defaults, and
\* the defaults with the level names, the caller flag or the output path
\* changed.
OptionsInputs ==
    { DefaultOptions,
      [DefaultOptions EXCEPT !.OutputLevel = "debug",
                             !.StackTraceLevel = "debug",
                             !.LogCaller = TRUE],
      [DefaultOptions EXCEPT !.OutputLevel = "none",
                             !.StackTraceLevel = ""],
      [DefaultOptions EXCEPT !.OutputLevel = "error",
                             !.StackTraceLevel = "",
                             !.LogCaller = TRUE,
                             !.JSONEncoding = TRUE],
      [DefaultOptions EXCEPT !.OutputLevel = "bogus",
                             !.StackTraceLevel = "debug",
                             !.LogCaller = TRUE],
      [DefaultOptions EXCEPT !.OutputLevel = "debug",
                             !.StackTraceLevel = "bogus",
                             !.LogCaller = TRUE],
      [DefaultOptions EXCEPT !.OutputPath = "/nodir/app.log",
                             !.OutputLevel = "debug",
                             !.StackTraceLevel = "debug",
                             !.LogCaller = TRUE] }

(***************************************************************************)
(* logger.go: the loggers.  "default" is defaultLogger; "beep" is a logger *)
(* built apart from it, as logger_test.go does.                            *)
(***************************************************************************)
DefaultLoggerName == "default"
Loggers == {DefaultLoggerName, "beep"}

\* The package variable defaultLogger (line 31) is a pointer: NilLogger
\* until updateLogger has made a logger, and from then on the number of the
\* logger object it points to, the objects numbered as they are made.
NilLogger == 0

\* A variant of EnsureDefaultLogger: every call makes a logger.
EnsureDefaultLoggerAnew(p) == p + 1

\* updateLogger, config.go lines 183-187: a logger is made only when
\* defaultLogger is nil.
EnsureDefaultLogger(p) == IF p = NilLogger THEN p + 1 ELSE p

\* The ten logging methods with the zapcore level each hands to output and
\* the Level each compares the output level with.
Methods == {"Debug", "Debugf", "Info", "Infof", "Warn", "Warnf",
            "Error", "Errorf", "Fatal", "Fatalf"}

MethodZapLevel(m) ==
    CASE m \in {"Debug", "Debugf"} -> "zap.debug"
      [] m \in {"Info", "Infof"}   -> "zap.info"
      [] m \in {"Warn", "Warnf"}   -> "zap.warn"
      [] m \in {"Error", "Errorf"} -> "zap.error"
      [] m \in {"Fatal", "Fatalf"} -> "zap.fatal"

MethodGuardLevel(m) ==
    CASE m \in {"Debug", "Debugf"} -> DebugLevel
      [] m \in {"Info", "Infof"}   -> InfoLevel
      [] m \in {"Warn", "Warnf"}   -> WarnLevel
      [] m \in {"Error", "Errorf"} -> ErrorLevel
      [] m \in {"Fatal", "Fatalf"} -> FatalLevel

\* A variant of MethodEnabled: the comparison is written > for >=.
MethodEnabledStrict(m, loaded) == loaded > MethodGuardLevel(m)

\* "if l.GetOutputLevel() >= XLevel" with the level just loaded.
MethodEnabled(m, loaded) == loaded >= MethodGuardLevel(m)

(***************************************************************************)
(* config.go: the function table.                                          *)
(***************************************************************************)
\* A functionTable value.  id numbers the Store that installed it; core is
\* the id of the Configure whose baseLogger the write, sync and close
\* closures captured; write tells whether the write field is non-nil.
NoTable ==
    [id |-> -1, core |-> -1, write |-> FALSE, exitProcess |-> "nil",
     errorSink |-> "nil", sink |-> {}, encoder |-> "nil", rotater |-> << >>]

\* prepZap's sinks for options o: the error sink is opened from
\* o.OutputPath (config.go line 81), the output sink from o.OutputPath and
\* the rotating sink from o.RotateOutputPath.
PrepZapErrSink(o) == o.OutputPath

PrepZapSink(o) ==
    (IF o.OutputPath # "" THEN {o.OutputPath} ELSE {})
        \cup (IF o.RotateOutputPath # "" THEN {o.RotateOutputPath} ELSE {})

\* prepZap's rotating writer, lines 71-79: none for the empty
\* RotateOutputPath, and else a lumberjack.Logger with the three limits of
\* the Options as they are; lumberjack reads MaxSize in megabytes and
\* MaxAge in days.
PrepZapRotater(o) ==
    IF o.RotateOutputPath # ""
    THEN << [Filename   |-> o.RotateOutputPath,
             MaxSize    |-> o.RotationMaxSize,
             MaxBackups |-> o.RotationMaxBackups,
             MaxAge     |-> o.RotationMaxAge] >>
    ELSE << >>

\* prepZap's encoder, lines 62-69.
PrepZapEncoder(o) == IF o.JSONEncoding THEN "json" ELSE "console"

\* prepZap returns an error when the first zap.Open (line 81) fails, or
\* when the second one (line 88, made for a non-empty OutputPath) does.
PrepZapOk(o) ==
    /\ CanOpen(o.OutputPath)
    /\ (o.OutputPath # "" => CanOpen(o.OutputPath))

\* A variant of NewFunctionTable: the table is stored before its write
\* field is set.
NewFunctionTableNoWrite(o, n) ==
    [id |-> n, core |-> n, write |-> FALSE, exitProcess |-> "os.Exit",
     errorSink |-> PrepZapErrSink(o), sink |-> PrepZapSink(o),
     encoder |-> PrepZapEncoder(o), rotater |-> PrepZapRotater(o)]

\* The table Configure builds (lines 137-154) when it is the n-th Store.
NewFunctionTable(o, n) ==
    [id |-> n, core |-> n, write |-> TRUE, exitProcess |-> "os.Exit",
     errorSink |-> PrepZapErrSink(o), sink |-> PrepZapSink(o),
     encoder |-> PrepZapEncoder(o), rotater |-> PrepZapRotater(o)]


(***************************************************************************)
(* State.                                                                  *)
(***************************************************************************)
VARIABLES
    outputLevel,      \* logger.outputLevel, per logger
    stackTraceLevel,  \* logger.stackTraceLevel, per logger
    logCallers,       \* logger.logCallers, per logger
    funcs,            \* the function table register (config.go line 53)
    nextId,           \* number of Stores into funcs so far
    zapGlobal,        \* the zap logger installed by zap.ReplaceGlobals
    exited,           \* os.Exit has been called: the process is gone
    pc,               \* per goroutine: where it stands in its operation
    frame,            \* per goroutine: the locals of its operation
    ops,              \* operations started so far
    defaultLogger,    \* the package variable defaultLogger (logger.go line 31)
    sinkLog,          \* the entries the sinks have taken, oldest first
    handles           \* the files zap.Open has opened, by number

vars == <<outputLevel, stackTraceLevel, logCallers, funcs, nextId, zapGlobal,
          exited, pc, frame, ops, defaultLogger, sinkLog, handles>>

\* What Configure finds when it starts: kept to compare with afterwards.
Snapshot ==
    [outputLevel     |-> outputLevel[DefaultLoggerName],
     stackTraceLevel |-> stackTraceLevel[DefaultLoggerName],
     logCallers      |-> logCallers[DefaultLoggerName],
     funcs           |-> funcs]

NoSnapshot ==
    [outputLevel |-> NoneLevel, stackTraceLevel |-> NoneLevel,
     logCallers |-> FALSE, funcs |-> NoTable]

\* The locals of one operation of a goroutine, and what it has done so far.
NoFrame ==
    [op          |-> "none",    \* "log", "configure", "set", "replaceExit"
     ret         |-> FALSE,     \* the operation has returned
     logger      |-> DefaultLoggerName,
     method      |-> "Info",
     msg         |-> 0,         \* the message of the entry
     level       |-> "zap.info", \* the level of an entry handed to zap
     checked     |-> NoneLevel, \* the output level zap's second check loaded
     accepted    |-> FALSE,     \* the answer of the gated core's enabler
     loaded      |-> NoneLevel, \* the output level the method loaded
     caller      |-> FALSE,     \* the entry carries a caller
     stack       |-> FALSE,     \* the entry carries a stack trace
     stackRead   |-> NoneLevel, \* the stack-trace level output loaded
     ft          |-> NoTable,   \* the table output loaded
     startId     |-> -1,        \* id of the table installed at the call
     writes      |-> 0,         \* calls of a write function
     writeFrom   |-> -1,        \* id of the table whose write was called
     writeErr    |-> FALSE,     \* the sink write returned an error
     exits       |-> 0,         \* calls of an exit function
     exitCode    |-> 0,         \* status handed to the exit function
     exitFrom    |-> -1,        \* id of the table whose exit was called
     exitFn      |-> "nil",     \* the exit function that was called
     exitAfter   |-> FALSE,     \* the sink write had returned by then
     diags       |-> 0,         \* diagnostic lines written
     diagFrom    |-> -1,        \* id of the table whose error sink got it
     diagSink    |-> "nil",     \* the target that error sink writes to
     opts        |-> DefaultOptions,
     opened      |-> {},        \* numbers of the files the call opened
     synced      |-> -1,        \* core whose sink the call has synced
     ref         |-> 0,         \* the logger pointer the goroutine took
     name        |-> "",        \* a level name: parsed, or formatted
     lvl         |-> NoneLevel, \* a Level: formatted
     parsed      |-> [level |-> NoneLevel, ok |-> FALSE],
     named       |-> "",        \* the name of the Level parsed
     result      |-> "none",    \* "ok", "InvalidLevel", "SinkOpenError"
     pre         |-> NoSnapshot, \* what Configure found
     post        |-> NoSnapshot, \* what Configure left when it returned nil
     setBy       |-> FALSE,     \* another goroutine stored a logger field
     storedBy    |-> FALSE]     \* another goroutine stored into funcs

\* The frames of the goroutines other than t, after t stored a field of the
\* default logger (logger = TRUE) or a function table (logger = FALSE).
Others(t, logger) ==
    [u \in Threads \ {t} |->
        IF frame[u].op = "configure"
        THEN IF logger THEN [frame[u] EXCEPT !.setBy = TRUE]
                       ELSE [frame[u] EXCEPT !.storedBy = TRUE]
        ELSE frame[u]]

\* frame with t's frame replaced by f and the others left alone.
Own(t, f) == [frame EXCEPT ![t] = f]

\* frame with t's frame replaced by f and the others told of a store.
OwnAndOthers(t, f, logger) ==
    [u \in Threads |-> IF u = t THEN f ELSE Others(t, logger)[u]]

Running == ~exited

CanStart(t) == Running /\ pc[t] = "idle" /\ ops < MaxOps

(***************************************************************************)
(* Init: the state after the package's init(), Configure(DefaultOptions()),*)
(* with the logger "beep" set up as in logger_test.go lines 28-34.         *)
(***************************************************************************)
Init ==
    /\ outputLevel = [l \in Loggers |-> stringToLevel[DefaultOptions.OutputLevel]]
    /\ stackTraceLevel = [l \in Loggers |-> stringToLevel[DefaultOptions.StackTraceLevel]]
    /\ logCallers = [l \in Loggers |-> DefaultOptions.LogCaller]
    /\ funcs = NewFunctionTable(DefaultOptions, 0)
    /\ nextId = 1
    /\ zapGlobal = [core        |-> 0,
                    sink        |-> PrepZapSink(DefaultOptions),
                    errorOutput |-> PrepZapErrSink(DefaultOptions),
                    addCaller   |-> FALSE,
                    stackTrace  |-> NoneLevel]
    /\ exited = FALSE
    /\ pc = [t \in Threads |-> "idle"]
    /\ frame = [t \in Threads |-> NoFrame]
    /\ ops = 0
    /\ defaultLogger = EnsureDefaultLogger(NilLogger)
    /\ sinkLog = << >>
    /\ handles = << >>

(***************************************************************************)
(* logger.go: a log call, lines 43-141 and output, lines 173-200.          *)
(***************************************************************************)
\* The call of method m of logger l returns: nothing more happens in it.
Return(f) == [f EXCEPT !.ret = TRUE]

\* A variant of LogEnter: the level loaded from the logger is compared
\* only after the default logger has been asked, as the gated core does.
LogEnterByDefaultLogger(t, l, m, msg) ==
    /\ LET f == [NoFrame EXCEPT !.op = "log", !.logger = l, !.method = m,
                                !.msg = msg,
                                !.loaded = outputLevel[l],
                                !.startId = funcs.id]
       IN  IF /\ MethodEnabled(m, outputLevel[l])
              /\ MethodEnabled(m, outputLevel[DefaultLoggerName])
           THEN /\ frame' = Own(t, f)
                /\ pc' = [pc EXCEPT ![t] = "callers"]
           ELSE /\ frame' = Own(t, Return(f))
                /\ pc' = pc
    /\ UNCHANGED <<outputLevel, stackTraceLevel, logCallers, funcs, nextId,
                   zapGlobal, exited, defaultLogger, sinkLog, handles>>

\* l.Debug .. l.Fatalf: load the output level and compare (lines 45, 52,
\* 65, 72, 85, 92, 105, 112, 125, 132); call output only when enabled.
LogEnter(t, l, m, msg) ==
    /\ LET f == [NoFrame EXCEPT !.op = "log", !.logger = l, !.method = m,
                                !.msg = msg,
                                !.loaded = outputLevel[l],
                                !.startId = funcs.id]
       IN  IF MethodEnabled(m, outputLevel[l])
           THEN /\ frame' = Own(t, f)
                /\ pc' = [pc EXCEPT ![t] = "callers"]
           ELSE /\ frame' = Own(t, Return(f))
                /\ pc' = pc
    /\ UNCHANGED <<defaultLogger, sinkLog, handles>>
    /\ UNCHANGED <<outputLevel, stackTraceLevel, logCallers, funcs, nextId,
                   zapGlobal, exited>>

\* A message the model does not tell apart from other messages.
NoMsg == 0

\* One of the operations a behaviour of Spec is made of.
LogCall(t, l, m) ==
    /\ CanStart(t)
    /\ ops' = ops + 1
    /\ LogEnter(t, l, m, NoMsg)

\* output, line 184: l.GetLogCallers().
LogCallers(t) ==
    /\ Running /\ pc[t] = "callers"
    /\ frame' = Own(t, [frame[t] EXCEPT !.caller = logCallers[frame[t].logger]])
    /\ pc' = [pc EXCEPT ![t] = "stack"]
    /\ UNCHANGED <<defaultLogger, sinkLog, handles>>
    /\ UNCHANGED <<outputLevel, stackTraceLevel, logCallers, funcs, nextId,
                   zapGlobal, exited, ops>>

\* A variant of WantsStack: the comparison is written > for >=.
WantsStackStrict(level, z) == level > toLevel[z]

\* "thresh := toLevel[level]; if l.GetStackTraceLevel() >= thresh", lines
\* 188-189, with the stack-trace level just loaded.
WantsStack(level, z) == level >= toLevel[z]

\* output, lines 188-191: the entry gets a stack trace when the logger's
\* stack-trace level is at or above its level.
LogStack(t) ==
    /\ Running /\ pc[t] = "stack"
    /\ frame' = Own(t, [frame[t] EXCEPT
            !.stackRead = stackTraceLevel[frame[t].logger],
            !.stack = WantsStack(stackTraceLevel[frame[t].logger],
                                 MethodZapLevel(frame[t].method))])
    /\ pc' = [pc EXCEPT ![t] = "load"]
    /\ UNCHANGED <<defaultLogger, sinkLog, handles>>
    /\ UNCHANGED <<outputLevel, stackTraceLevel, logCallers, funcs, nextId,
                   zapGlobal, exited, ops>>

\* output, lines 193-194: ft := funcs.Load(); nothing is written when
\* ft.write is nil.
LogLoad(t) ==
    /\ Running /\ pc[t] = "load"
    /\ LET f == [frame[t] EXCEPT !.ft = funcs]
       IN  IF funcs.write
           THEN /\ frame' = Own(t, f)
                /\ pc' = [pc EXCEPT ![t] = "write"]
           ELSE /\ frame' = Own(t, Return(f))
                /\ pc' = [pc EXCEPT ![t] = "idle"]
    /\ UNCHANGED <<defaultLogger, sinkLog, handles>>
    /\ UNCHANGED <<outputLevel, stackTraceLevel, logCallers, funcs, nextId,
                   zapGlobal, exited, ops>>

\* A variant of AfterWrite: the error of the write is dropped.
AfterWriteSilent(f) == Return(f)

\* A variant of AfterWrite: the error sink is taken from a second load of
\* the register, not from ft.
AfterWriteReloadsTable(f) ==
    Return(IF f.writeErr
           THEN [f EXCEPT !.diags = @ + 1, !.diagFrom = funcs.id,
                          !.diagSink = funcs.errorSink]
           ELSE f)

\* output, lines 196-197, after ft.write returned: a failed write is
\* reported on ft.errorSink, and output returns.
AfterWrite(f) ==
    Return(IF f.writeErr
           THEN [f EXCEPT !.diags = @ + 1, !.diagFrom = f.ft.id,
                          !.diagSink = f.ft.errorSink]
           ELSE f)

\* A variant of WriteWantsExit: exit is asked for only when the sink write
\* returned no error.
WriteWantsExitUnlessFailed(f) ==
    MethodZapLevel(f.method) = "zap.fatal" /\ ~f.writeErr

\* The write closure asks for the exit function after its sink write when
\* the entry is at Fatal level (config.go line 140).
WriteWantsExit(f) == MethodZapLevel(f.method) = "zap.fatal"

\* output, lines 180-182: the entry names its logger unless that is the
\* default logger.
EntryLoggerName(l) == IF l # DefaultLoggerName THEN l ELSE ""

\* The entry of the log call of frame f, as the sink of the table it loaded
\* takes it.
LoggerEntry(t, f) ==
    [by |-> t, via |-> "logger", msg |-> f.msg, table |-> f.ft.id,
     sink |-> f.ft.sink, scope |-> EntryLoggerName(f.logger)]

\* A variant of SinkAppend: the newest entry comes first.
SinkPrepend(log, e) == <<e>> \o log

\* The sinks take the entries in the order the writes reach them.
SinkAppend(log, e) == Append(log, e)

\* ft.write(e, nil), config.go lines 138-139: baseLogger.Write encodes the
\* entry and writes it to the sink, and may return an error.
LogWrite(t, err) ==
    /\ Running /\ pc[t] = "write"
    /\ LET f == [frame[t] EXCEPT !.writes = @ + 1,
                                 !.writeFrom = frame[t].ft.id,
                                 !.writeErr = err]
       IN  /\ sinkLog' = IF err THEN sinkLog
                         ELSE SinkAppend(sinkLog, LoggerEntry(t, f))
           /\ IF WriteWantsExit(f)
              THEN /\ frame' = Own(t, f)
                   /\ pc' = [pc EXCEPT ![t] = "exit"]
              ELSE /\ frame' = Own(t, AfterWrite(f))
                   /\ pc' = [pc EXCEPT ![t] = "idle"]
    /\ UNCHANGED <<defaultLogger, handles>>
    /\ UNCHANGED <<outputLevel, stackTraceLevel, logCallers, funcs, nextId,
                   zapGlobal, exited, ops>>

\* The status the write closure hands to the exit function (line 141).
ExitStatus == 1

\* config.go line 141: funcs.Load().(functionTable).exitProcess(1).  os.Exit
\* ends the process; an exit function a test installed returns, and then
\* write returns err to output.
LogExit(t) ==
    /\ Running /\ pc[t] = "exit"
    /\ LET f == [frame[t] EXCEPT !.exits = @ + 1,
                                 !.exitCode = ExitStatus,
                                 !.exitFrom = funcs.id,
                                 !.exitFn = funcs.exitProcess,
                                 !.exitAfter = (frame[t].writes > 0)]
       IN  IF funcs.exitProcess = "os.Exit"
           THEN /\ frame' = Own(t, f)
                /\ exited' = TRUE
                /\ pc' = pc
           ELSE /\ frame' = Own(t, AfterWrite(f))
                /\ exited' = exited
                /\ pc' = [pc EXCEPT ![t] = "idle"]
    /\ UNCHANGED <<defaultLogger, sinkLog, handles>>
    /\ UNCHANGED <<outputLevel, stackTraceLevel, logCallers, funcs, nextId,
                   zapGlobal, ops>>

(***************************************************************************)
(* config.go: Configure, lines 126-180, and updateLogger, lines 182-206.   *)
(***************************************************************************)
\* Configure returns err: nothing more happens in the call.
Fail(f, err) == [f EXCEPT !.ret = TRUE, !.result = err]

\* updateLogger, lines 189-192: is opts.OutputLevel a key of stringToLevel?
OutputLevelOk(o) == LookupLevel(o.OutputLevel).ok

\* updateLogger, line 195: the stack-trace level is looked at only when
\* opts.StackTraceLevel is not the empty string.
StackTraceLevelGiven(o) == o.StackTraceLevel # ""

\* A variant of StackTraceLevelOk: the ok of the map read is not looked at.
StackTraceLevelUnchecked(o) == TRUE

\* updateLogger, lines 196-199.
StackTraceLevelOk(o) == LookupLevel(o.StackTraceLevel).ok

\* Configure(o) starts: updateLogger up to line 193.  defaultLogger is not
\* nil after init(), so line 184 is not reached again.
Configure(t, o) ==
    /\ CanStart(t)
    /\ ops' = ops + 1
    /\ LET f == [NoFrame EXCEPT !.op = "configure", !.opts = o,
                                !.pre = Snapshot, !.startId = funcs.id]
       IN  IF OutputLevelOk(o)
           THEN /\ outputLevel' = [outputLevel EXCEPT ![DefaultLoggerName] =
                                       LookupLevel(o.OutputLevel).level]
                /\ frame' = OwnAndOthers(t, f, TRUE)
                /\ pc' = [pc EXCEPT ![t] = "cfg.stack"]
           ELSE /\ outputLevel' = outputLevel
                /\ frame' = Own(t, Fail(f, "InvalidLevel"))
                /\ pc' = pc
    /\ defaultLogger' = EnsureDefaultLogger(defaultLogger)
    /\ UNCHANGED <<sinkLog, handles>>
    /\ UNCHANGED <<stackTraceLevel, logCallers, funcs, nextId, zapGlobal,
                   exited>>

\* A variant of ConfigureStackTrace: the empty opts.StackTraceLevel stores
\* the level None.
ConfigureStackTraceResets(t) ==
    /\ Running /\ pc[t] = "cfg.stack"
    /\ LET o == frame[t].opts
       IN  IF ~StackTraceLevelGiven(o)
           THEN /\ stackTraceLevel' =
                       [stackTraceLevel EXCEPT ![DefaultLoggerName] = NoneLevel]
                /\ frame' = frame
                /\ pc' = [pc EXCEPT ![t] = "cfg.callers"]
           ELSE IF StackTraceLevelOk(o)
           THEN /\ stackTraceLevel' =
                       [stackTraceLevel EXCEPT ![DefaultLoggerName] =
                            LookupLevel(o.StackTraceLevel).level]
                /\ frame' = OwnAndOthers(t, frame[t], TRUE)
                /\ pc' = [pc EXCEPT ![t] = "cfg.callers"]
           ELSE /\ stackTraceLevel' = stackTraceLevel
                /\ frame' = Own(t, Fail(frame[t], "InvalidLevel"))
                /\ pc' = [pc EXCEPT ![t] = "idle"]
    /\ UNCHANGED <<outputLevel, logCallers, funcs, nextId, zapGlobal, exited,
                   ops, defaultLogger, sinkLog, handles>>

\* updateLogger, lines 195-201.
ConfigureStackTrace(t) ==
    /\ Running /\ pc[t] = "cfg.stack"
    /\ LET o == frame[t].opts
       IN  IF ~StackTraceLevelGiven(o)
           THEN /\ stackTraceLevel' = stackTraceLevel
                /\ frame' = frame
                /\ pc' = [pc EXCEPT ![t] = "cfg.callers"]
           ELSE IF StackTraceLevelOk(o)
           THEN /\ stackTraceLevel' =
                       [stackTraceLevel EXCEPT ![DefaultLoggerName] =
                            LookupLevel(o.StackTraceLevel).level]
                /\ frame' = OwnAndOthers(t, frame[t], TRUE)
                /\ pc' = [pc EXCEPT ![t] = "cfg.callers"]
           ELSE /\ stackTraceLevel' = stackTraceLevel
                /\ frame' = Own(t, Fail(frame[t], "InvalidLevel"))
                /\ pc' = [pc EXCEPT ![t] = "idle"]
    /\ UNCHANGED <<defaultLogger, sinkLog, handles>>
    /\ UNCHANGED <<outputLevel, logCallers, funcs, nextId, zapGlobal, exited,
                   ops>>

\* A variant of ConfigureLogCallers: opts.LogCaller = true flips the flag.
ConfigureLogCallersFlips(t) ==
    /\ Running /\ pc[t] = "cfg.callers"
    /\ logCallers' = [logCallers EXCEPT ![DefaultLoggerName] =
                          IF frame[t].opts.LogCaller THEN ~@ ELSE FALSE]
    /\ frame' = OwnAndOthers(t, frame[t], TRUE)
    /\ pc' = [pc EXCEPT ![t] = "cfg.prep"]
    /\ UNCHANGED <<outputLevel, stackTraceLevel, funcs, nextId, zapGlobal,
                   exited, ops, defaultLogger, sinkLog, handles>>

\* A variant of ConfigureLogCallers: the caller flag is not stored.
ConfigureLogCallersSkipped(t) ==
    /\ Running /\ pc[t] = "cfg.callers"
    /\ pc' = [pc EXCEPT ![t] = "cfg.prep"]
    /\ UNCHANGED <<defaultLogger, sinkLog, handles>>
    /\ UNCHANGED <<outputLevel, stackTraceLevel, logCallers, funcs, nextId,
                   zapGlobal, exited, ops, frame>>

\* updateLogger, lines 203-205.
ConfigureLogCallers(t) ==
    /\ Running /\ pc[t] = "cfg.callers"
    /\ logCallers' = [logCallers EXCEPT ![DefaultLoggerName] =
                          frame[t].opts.LogCaller]
    /\ frame' = OwnAndOthers(t, frame[t], TRUE)
    /\ pc' = [pc EXCEPT ![t] = "cfg.prep"]
    /\ UNCHANGED <<defaultLogger, sinkLog, handles>>
    /\ UNCHANGED <<outputLevel, stackTraceLevel, funcs, nextId, zapGlobal,
                   exited, ops>>

\* A variant of ConfigurePrepZap: on an error of prepZap an empty table is
\* stored before the error is returned.
ConfigurePrepZapClearsTable(t, fails) ==
    /\ Running /\ pc[t] = "cfg.prep"
    /\ ~fails
    /\ IF PrepZapOk(frame[t].opts)
       THEN /\ frame' = frame
            /\ pc' = [pc EXCEPT ![t] = "cfg.store"]
            /\ UNCHANGED <<funcs, nextId>>
       ELSE /\ frame' = Own(t, Fail(frame[t], "SinkOpenError"))
            /\ pc' = [pc EXCEPT ![t] = "idle"]
            /\ funcs' = [NoTable EXCEPT !.id = nextId]
            /\ nextId' = nextId + 1
    /\ UNCHANGED <<defaultLogger, sinkLog, handles>>
    /\ UNCHANGED <<outputLevel, stackTraceLevel, logCallers, zapGlobal,
                   exited, ops>>

\* Configure, lines 131-134: prepZap, whose error Configure returns.
\* The rotating sink (lines 72-79) opens its file at its first write, not
\* here.  Line 81 opens the error sink; lines 87-92 open the output sink
\* and, when that fails, close the error sink.  fails tells that the open
\* of line 88 fails for a file that line 81 could open: the operating
\* system may refuse a further descriptor at any time.
ConfigurePrepZap(t, fails) ==
    /\ Running /\ pc[t] = "cfg.prep"
    /\ LET o       == frame[t].opts
           errFile == NewIn(handles, o.OutputPath)
           h1      == Opened(handles, o.OutputPath, t)
           outFile == NewIn(h1, o.OutputPath)
           h2      == Opened(h1, o.OutputPath, t)
       IN  /\ fails => (PrepZapOk(o) /\ IsFile(o.OutputPath))
           /\ IF ~PrepZapOk(o)
              THEN /\ handles' = handles
                   /\ frame' = Own(t, Fail(frame[t], "SinkOpenError"))
                   /\ pc' = [pc EXCEPT ![t] = "idle"]
              ELSE IF fails
              THEN /\ handles' = CloseErrorSink(h1, errFile)
                   /\ frame' = Own(t, Fail([frame[t] EXCEPT !.opened = errFile],
                                           "SinkOpenError"))
                   /\ pc' = [pc EXCEPT ![t] = "idle"]
              ELSE /\ handles' = h2
                   /\ frame' = Own(t, [frame[t] EXCEPT
                                          !.opened = errFile \cup outFile])
                   /\ pc' = [pc EXCEPT ![t] = "cfg.store"]
    /\ UNCHANGED <<defaultLogger, sinkLog>>
    /\ UNCHANGED <<outputLevel, stackTraceLevel, logCallers, funcs, nextId,
                   zapGlobal, exited, ops>>

\* A variant of ConfigureStore: the new table takes over the exit
\* function of the table it replaces.
ConfigureStoreKeepsExit(t) ==
    /\ Running /\ pc[t] = "cfg.store"
    /\ funcs' = [NewFunctionTable(frame[t].opts, nextId)
                    EXCEPT !.exitProcess = funcs.exitProcess]
    /\ nextId' = nextId + 1
    /\ frame' = OwnAndOthers(t, [frame[t] EXCEPT !.ft = funcs'], FALSE)
    /\ pc' = [pc EXCEPT ![t] = "cfg.globals"]
    /\ UNCHANGED <<outputLevel, stackTraceLevel, logCallers, zapGlobal,
                   exited, ops, defaultLogger, sinkLog, handles>>

\* A variant of ConfigureStore: the table is built and not stored.
ConfigureStoreSkipped(t) ==
    /\ Running /\ pc[t] = "cfg.store"
    /\ nextId' = nextId + 1
    /\ frame' = Own(t, [frame[t] EXCEPT !.ft =
                            NewFunctionTable(frame[t].opts, nextId)])
    /\ pc' = [pc EXCEPT ![t] = "cfg.globals"]
    /\ UNCHANGED <<outputLevel, stackTraceLevel, logCallers, zapGlobal,
                   exited, ops, funcs, defaultLogger, sinkLog, handles>>

\* Configure, lines 137-155: build the table and funcs.Store(ft).
ConfigureStore(t) ==
    /\ Running /\ pc[t] = "cfg.store"
    /\ funcs' = NewFunctionTable(frame[t].opts, nextId)
    /\ nextId' = nextId + 1
    /\ frame' = OwnAndOthers(t, [frame[t] EXCEPT !.ft = funcs'], FALSE)
    /\ pc' = [pc EXCEPT ![t] = "cfg.globals"]
    /\ UNCHANGED <<defaultLogger, sinkLog, handles>>
    /\ UNCHANGED <<outputLevel, stackTraceLevel, logCallers, zapGlobal,
                   exited, ops>>

\* Configure, lines 157-179: the zap logger over logBuilder() with the
\* default logger's caller flag and stack-trace level of this moment
\* replaces zap's global logger, and Configure returns nil.
ConfigureGlobals(t) ==
    /\ Running /\ pc[t] = "cfg.globals"
    /\ zapGlobal' = [core        |-> frame[t].ft.core,
                     sink        |-> frame[t].ft.sink,
                     errorOutput |-> frame[t].ft.errorSink,
                     addCaller   |-> logCallers[DefaultLoggerName],
                     stackTrace  |-> stackTraceLevel[DefaultLoggerName]]
    /\ frame' = Own(t, [frame[t] EXCEPT !.ret = TRUE, !.result = "ok",
                                        !.post = Snapshot])
    /\ pc' = [pc EXCEPT ![t] = "idle"]
    /\ UNCHANGED <<defaultLogger, sinkLog, handles>>
    /\ UNCHANGED <<outputLevel, stackTraceLevel, logCallers, funcs, nextId,
                   exited, ops>>

(***************************************************************************)
(* logger.go: the setters, lines 143-171.                                  *)
(***************************************************************************)
SetFrame == [NoFrame EXCEPT !.op = "set", !.ret = TRUE]

\* The values the model hands to SetStackTraceLevel.
StackTraceLevelInputLevels == {NoneLevel, DebugLevel}

\* The loggers the goroutines of Spec call: the package-level functions
\* (lines 202-251) all call defaultLogger.
SpecLoggers == {DefaultLoggerName}

SetOutputLevel(t, l, level) ==
    /\ CanStart(t)
    /\ ops' = ops + 1
    /\ outputLevel' = [outputLevel EXCEPT ![l] = level]
    /\ frame' = OwnAndOthers(t, SetFrame, l = DefaultLoggerName)
    /\ UNCHANGED <<defaultLogger, sinkLog, handles>>
    /\ UNCHANGED <<stackTraceLevel, logCallers, funcs, nextId, zapGlobal,
                   exited, pc>>

SetStackTraceLevel(t, l, level) ==
    /\ CanStart(t)
    /\ ops' = ops + 1
    /\ stackTraceLevel' = [stackTraceLevel EXCEPT ![l] = level]
    /\ frame' = OwnAndOthers(t, SetFrame, l = DefaultLoggerName)
    /\ UNCHANGED <<defaultLogger, sinkLog, handles>>
    /\ UNCHANGED <<outputLevel, logCallers, funcs, nextId, zapGlobal, exited,
                   pc>>

SetLogCallers(t, l, b) ==
    /\ CanStart(t)
    /\ ops' = ops + 1
    /\ logCallers' = [logCallers EXCEPT ![l] = b]
    /\ frame' = OwnAndOthers(t, SetFrame, l = DefaultLoggerName)
    /\ UNCHANGED <<defaultLogger, sinkLog, handles>>
    /\ UNCHANGED <<outputLevel, stackTraceLevel, funcs, nextId, zapGlobal,
                   exited, pc>>

(***************************************************************************)
(* logger_test.go lines 172-176: a test replaces the exit function of the  *)
(* installed table: load the table, change exitProcess, store it back.     *)
(***************************************************************************)
ReplaceExitLoad(t) ==
    /\ CanStart(t)
    /\ ops' = ops + 1
    /\ frame' = Own(t, [NoFrame EXCEPT !.op = "replaceExit", !.ft = funcs,
                                       !.startId = funcs.id])
    /\ pc' = [pc EXCEPT ![t] = "rx.store"]
    /\ UNCHANGED <<defaultLogger, sinkLog, handles>>
    /\ UNCHANGED <<outputLevel, stackTraceLevel, logCallers, funcs, nextId,
                   zapGlobal, exited>>

ReplaceExitStore(t) ==
    /\ Running /\ pc[t] = "rx.store"
    /\ funcs' = [frame[t].ft EXCEPT !.id = nextId, !.exitProcess = "testExit"]
    /\ nextId' = nextId + 1
    /\ frame' = OwnAndOthers(t, Return(frame[t]), FALSE)
    /\ pc' = [pc EXCEPT ![t] = "idle"]
    /\ UNCHANGED <<defaultLogger, sinkLog, handles>>
    /\ UNCHANGED <<outputLevel, stackTraceLevel, logCallers, zapGlobal,
                   exited, ops>>

(***************************************************************************)
(* config.go lines 171-177: entries that come in through zap's global      *)
(* logger, zap.L(), and through the standard log package, whose output     *)
(* zap.RedirectStdLog hands to that logger at Info level.  The logger is   *)
(* built over logBuilder(), the core of lines 105-118.  zap's Logger asks  *)
(* the core twice whether the level is enabled, in Logger.check and in     *)
(* Core.Check, and then calls Core.Write; a failed write is reported on    *)
(* the logger's ErrorOutput (line 158).                                    *)
(***************************************************************************)
\* The ways in, and the levels of the entries (config_test.go lines 78-84).
ZapSources == {"zap.L", "log"}

ZapEntryLevels(via) ==
    IF via = "log" THEN {"zap.info"}
    ELSE {"zap.debug", "zap.info", "zap.warn", "zap.error"}

\* A variant of ConditionallyOn: the logger is built over the core that
\* accepts every level.
ConditionallyOnAlways(z, level) == TRUE

\* The enabler of lines 106-116, for the default logger's output level
\* just loaded: ErrorEnabled, WarnEnabled and InfoEnabled for their levels
\* and DebugEnabled for every other level (logger.go lines 59-121).
ConditionallyOn(z, level) ==
    CASE z = "zap.error" -> level >= ErrorLevel
      [] z = "zap.warn"  -> level >= WarnLevel
      [] z = "zap.info"  -> level >= InfoLevel
      [] OTHER           -> level >= DebugLevel

\* zap.L().Error(msg) and the like, or log.Println(msg): the global
\* logger is loaded.
ZapEntry(t, via, z) ==
    /\ CanStart(t)
    /\ ops' = ops + 1
    /\ frame' = Own(t, [NoFrame EXCEPT !.op = "zap", !.method = via,
                                       !.level = z, !.ft = zapGlobal,
                                       !.startId = funcs.id])
    /\ pc' = [pc EXCEPT ![t] = "zap.enabled"]
    /\ UNCHANGED <<outputLevel, stackTraceLevel, logCallers, funcs, nextId,
                   zapGlobal, exited, defaultLogger, sinkLog, handles>>

\* Logger.check: core.Enabled(lvl).
ZapEnabled(t) ==
    /\ Running /\ pc[t] = "zap.enabled"
    /\ LET f == [frame[t] EXCEPT !.loaded = outputLevel[DefaultLoggerName]]
       IN  IF ConditionallyOn(f.level, f.loaded)
           THEN /\ frame' = Own(t, f)
                /\ pc' = [pc EXCEPT ![t] = "zap.check"]
           ELSE /\ frame' = Own(t, Return(f))
                /\ pc' = [pc EXCEPT ![t] = "idle"]
    /\ UNCHANGED <<outputLevel, stackTraceLevel, logCallers, funcs, nextId,
                   zapGlobal, exited, ops, defaultLogger, sinkLog, handles>>

\* Core.Check: c.Enabled(ent.Level) once more.
ZapCheck(t) ==
    /\ Running /\ pc[t] = "zap.check"
    /\ LET f == [frame[t] EXCEPT !.checked = outputLevel[DefaultLoggerName]]
       IN  IF ConditionallyOn(f.level, f.checked)
           THEN /\ frame' = Own(t, f)
                /\ pc' = [pc EXCEPT ![t] = "zap.write"]
           ELSE /\ frame' = Own(t, Return(f))
                /\ pc' = [pc EXCEPT ![t] = "idle"]
    /\ UNCHANGED <<outputLevel, stackTraceLevel, logCallers, funcs, nextId,
                   zapGlobal, exited, ops, defaultLogger, sinkLog, handles>>

\* The entry of the zap call of frame f, as the sink of its core takes it.
ZapLoggerEntry(t, f) ==
    [by |-> t, via |-> f.method, msg |-> f.msg, table |-> f.ft.core,
     sink |-> f.ft.sink, scope |-> ""]

\* Core.Write: the entry goes to the sink; an error is reported on the
\* logger's ErrorOutput.
ZapWrite(t, err) ==
    /\ Running /\ pc[t] = "zap.write"
    /\ LET f == [frame[t] EXCEPT !.writes = @ + 1,
                                 !.writeFrom = frame[t].ft.core,
                                 !.writeErr = err]
       IN  /\ sinkLog' = IF err THEN sinkLog
                         ELSE SinkAppend(sinkLog, ZapLoggerEntry(t, f))
           /\ frame' = Own(t, Return(IF err
                   THEN [f EXCEPT !.diags = @ + 1, !.diagFrom = f.ft.core,
                                  !.diagSink = f.ft.errorOutput]
                   ELSE f))
    /\ pc' = [pc EXCEPT ![t] = "idle"]
    /\ UNCHANGED <<outputLevel, stackTraceLevel, logCallers, funcs, nextId,
                   zapGlobal, exited, ops, defaultLogger, handles>>

\* zap.L().Core().Enabled(lvl): the enabler of the core that Configure
\* built with logBuilder() (lines 105-118, 171) is asked about the level z;
\* it loads the default logger's output level through one of the XEnabled
\* methods.
CoreEnabled(t, z) ==
    /\ CanStart(t)
    /\ ops' = ops + 1
    /\ frame' = Own(t, [NoFrame EXCEPT
                            !.op = "enabled", !.ret = TRUE, !.level = z,
                            !.ft = zapGlobal, !.startId = funcs.id,
                            !.loaded = outputLevel[DefaultLoggerName],
                            !.accepted = ConditionallyOn(
                                z, outputLevel[DefaultLoggerName])])
    /\ UNCHANGED <<outputLevel, stackTraceLevel, logCallers, funcs, nextId,
                   zapGlobal, exited, pc, defaultLogger, sinkLog, handles>>

(***************************************************************************)
(* config.go lines 247-256: Sync and Close.  Each loads the installed      *)
(* table and calls its sync or close function: baseLogger.Sync (line 146), *)
(* and the closure of lines 149-153, which calls baseLogger.Sync, drops    *)
(* its error and returns nil.                                              *)
(***************************************************************************)
\* funcs.Load().(functionTable), lines 250 and 255.
SyncLoad(t) ==
    /\ CanStart(t)
    /\ ops' = ops + 1
    /\ frame' = Own(t, [NoFrame EXCEPT !.op = "sync", !.ft = funcs,
                                       !.startId = funcs.id])
    /\ pc' = [pc EXCEPT ![t] = "sync.run"]
    /\ UNCHANGED <<outputLevel, stackTraceLevel, logCallers, funcs, nextId,
                   zapGlobal, exited, defaultLogger, sinkLog, handles>>

\* ft.sync(), line 146: the sink of the core the table was built over is
\* synced.
SyncRun(t) ==
    /\ Running /\ pc[t] = "sync.run"
    /\ frame' = Own(t, Return([frame[t] EXCEPT !.synced = frame[t].ft.core]))
    /\ pc' = [pc EXCEPT ![t] = "idle"]
    /\ UNCHANGED <<outputLevel, stackTraceLevel, logCallers, funcs, nextId,
                   zapGlobal, exited, ops, defaultLogger, sinkLog, handles>>

CloseLoad(t) ==
    /\ CanStart(t)
    /\ ops' = ops + 1
    /\ frame' = Own(t, [NoFrame EXCEPT !.op = "close", !.ft = funcs,
                                       !.startId = funcs.id])
    /\ pc' = [pc EXCEPT ![t] = "close.run"]
    /\ UNCHANGED <<outputLevel, stackTraceLevel, logCallers, funcs, nextId,
                   zapGlobal, exited, defaultLogger, sinkLog, handles>>

\* ft.close(), lines 149-153: the sink is synced; no file is closed.
CloseRun(t) ==
    /\ Running /\ pc[t] = "close.run"
    /\ frame' = Own(t, Return([frame[t] EXCEPT !.synced = frame[t].ft.core]))
    /\ pc' = [pc EXCEPT ![t] = "idle"]
    /\ handles' = handles
    /\ UNCHANGED <<outputLevel, stackTraceLevel, logCallers, funcs, nextId,
                   zapGlobal, exited, ops, defaultLogger, sinkLog>>

(***************************************************************************)
(* The specification.                                                      *)
(***************************************************************************)
Next ==
    \E t \in Threads :
        \/ \E l \in SpecLoggers, m \in Methods : LogCall(t, l, m)
        \/ LogCallers(t)
        \/ LogStack(t)
        \/ LogLoad(t)
        \/ \E err \in BOOLEAN : LogWrite(t, err)
        \/ LogExit(t)
        \/ \E o \in OptionsInputs : Configure(t, o)
        \/ ConfigureStackTrace(t)
        \/ ConfigureLogCallers(t)
        \/ \E fails \in BOOLEAN : ConfigurePrepZap(t, fails)
        \/ ConfigureStore(t)
        \/ ConfigureGlobals(t)
        \/ \E l \in SpecLoggers, level \in Levels :
               SetOutputLevel(t, l, level)
        \/ \E l \in SpecLoggers, level \in StackTraceLevelInputLevels :
               SetStackTraceLevel(t, l, level)
        \/ \E l \in SpecLoggers, b \in BOOLEAN : SetLogCallers(t, l, b)
        \/ ReplaceExitLoad(t)
        \/ ReplaceExitStore(t)

Spec == Init /\ [][Next]_vars

(***************************************************************************)
(* SpecBoot: the program from its load on.  BootInit is the state before   *)
(* the package's init() has run: defaultLogger is nil, no field of a       *)
(* logger has been stored, the register funcs is empty and zap's global    *)
(* logger is the one zap starts with, which drops every entry.  init()     *)
(* runs before any other code of the program and on one goroutine, so      *)
(* PackageInit is one step.  The goroutines then take the pointer          *)
(* defaultLogger, call Configure, Sync and Close, log through the default  *)
(* logger, ask the gated core and replace the exit function.               *)
(***************************************************************************)
BootInit ==
    /\ outputLevel = [l \in {} |-> NoneLevel]
    /\ stackTraceLevel = [l \in {} |-> NoneLevel]
    /\ logCallers = [l \in {} |-> FALSE]
    /\ funcs = NoTable
    /\ nextId = 0
    /\ zapGlobal = [core |-> -1, sink |-> {}, errorOutput |-> "nil",
                    addCaller |-> FALSE, stackTrace |-> NoneLevel]
    /\ exited = FALSE
    /\ pc = [t \in Threads |-> "idle"]
    /\ frame = [t \in Threads |-> NoFrame]
    /\ ops = 0
    /\ defaultLogger = NilLogger
    /\ sinkLog = << >>
    /\ handles = << >>

\* init() has run.
Booted == funcs # NoTable

\* The atomic.Value fields of a logger (logger.go lines 38-40) hold nothing
\* until their first Store: field is defined for the loggers whose field
\* has been stored.  Store of the value v into the field of logger l.
StoreFirst(field, l, v) ==
    [k \in DOMAIN field \cup {l} |-> IF k = l THEN v ELSE field[k]]

\* A variant of PackageInit: the stack-trace level "none" of the default
\* Options is taken for no level to store.
PackageInitSkipsNone ==
    /\ ~Booted
    /\ defaultLogger' = EnsureDefaultLogger(defaultLogger)
    /\ outputLevel' = StoreFirst(outputLevel, DefaultLoggerName,
                           LookupLevel(DefaultOptions.OutputLevel).level)
    /\ stackTraceLevel' = stackTraceLevel
    /\ logCallers' = StoreFirst(logCallers, DefaultLoggerName,
                          DefaultOptions.LogCaller)
    /\ funcs' = NewFunctionTable(DefaultOptions, nextId)
    /\ nextId' = nextId + 1
    /\ zapGlobal' = [core        |-> funcs'.core,
                     sink        |-> funcs'.sink,
                     errorOutput |-> funcs'.errorSink,
                     addCaller   |-> logCallers'[DefaultLoggerName],
                     stackTrace  |-> NoneLevel]
    /\ UNCHANGED <<exited, pc, frame, ops, sinkLog, handles>>

\* init(), config.go lines 55-58: Configure(DefaultOptions()), whose
\* options are valid and whose sinks open.
PackageInit ==
    /\ ~Booted
    /\ defaultLogger' = EnsureDefaultLogger(defaultLogger)
    /\ outputLevel' = StoreFirst(outputLevel, DefaultLoggerName,
                           LookupLevel(DefaultOptions.OutputLevel).level)
    /\ stackTraceLevel' = StoreFirst(stackTraceLevel, DefaultLoggerName,
                               LookupLevel(DefaultOptions.StackTraceLevel).level)
    /\ logCallers' = StoreFirst(logCallers, DefaultLoggerName,
                          DefaultOptions.LogCaller)
    /\ funcs' = NewFunctionTable(DefaultOptions, nextId)
    /\ nextId' = nextId + 1
    /\ zapGlobal' = [core        |-> funcs'.core,
                     sink        |-> funcs'.sink,
                     errorOutput |-> funcs'.errorSink,
                     addCaller   |-> logCallers'[DefaultLoggerName],
                     stackTrace  |-> stackTraceLevel'[DefaultLoggerName]]
    /\ UNCHANGED <<exited, pc, frame, ops, sinkLog, handles>>

\* A goroutine takes the pointer: l := defaultLogger.  It holds it until
\* its next operation.
TakeRef(t) ==
    /\ Running /\ pc[t] = "idle"
    /\ frame[t].op # "ref"
    /\ frame' = Own(t, [NoFrame EXCEPT !.op = "ref", !.ret = TRUE,
                                       !.ref = defaultLogger,
                                       !.startId = funcs.id])
    /\ UNCHANGED <<outputLevel, stackTraceLevel, logCallers, funcs, nextId,
                   zapGlobal, exited, pc, ops, defaultLogger, sinkLog,
                   handles>>

BootMethods == {"Debugf", "Info", "Fatal"}

BootNext ==
    \/ PackageInit
    \/ /\ Booted
       /\ \E t \in Threads :
              \/ TakeRef(t)
              \/ \E o \in OptionsInputs : Configure(t, o)
              \/ ConfigureStackTrace(t)
              \/ ConfigureLogCallers(t)
              \/ \E fails \in BOOLEAN : ConfigurePrepZap(t, fails)
              \/ ConfigureStore(t)
              \/ ConfigureGlobals(t)
              \/ \E m \in BootMethods : LogCall(t, DefaultLoggerName, m)
              \/ LogCallers(t)
              \/ LogStack(t)
              \/ LogLoad(t)
              \/ \E err \in BOOLEAN : LogWrite(t, err)
              \/ LogExit(t)
              \/ \E z \in ZapLevels : CoreEnabled(t, z)
              \/ SyncLoad(t)
              \/ SyncRun(t)
              \/ CloseLoad(t)
              \/ CloseRun(t)
              \/ ReplaceExitLoad(t)
              \/ ReplaceExitStore(t)

SpecBoot == BootInit /\ [][BootNext]_vars

(***************************************************************************)
(* SpecOrder: one goroutine issues log calls one after another, the n-th   *)
(* with the message n, while the other goroutines call Configure.          *)
(***************************************************************************)
OrderWriter == 1

OrderMethods == {"Debugf", "Info", "Errorf", "Fatal"}

OrderOptionsInputs ==
    { DefaultOptions,
      [DefaultOptions EXCEPT !.OutputLevel = "debug",
                             !.StackTraceLevel = "debug",
                             !.LogCaller = TRUE],
      [DefaultOptions EXCEPT !.OutputPath = "/log/app.log"],
      [DefaultOptions EXCEPT !.OutputLevel = "bogus"] }

\* The next call of the goroutine, issued when the one before has returned.
OrderLogCall(t, m) ==
    /\ Running /\ pc[t] = "idle"
    /\ frame[t].msg < MaxCalls
    /\ ops' = ops
    /\ LogEnter(t, DefaultLoggerName, m, frame[t].msg + 1)

OrderNext ==
    \/ \E m \in OrderMethods : OrderLogCall(OrderWriter, m)
    \/ LogCallers(OrderWriter)
    \/ LogStack(OrderWriter)
    \/ LogLoad(OrderWriter)
    \/ \E err \in BOOLEAN : LogWrite(OrderWriter, err)
    \/ LogExit(OrderWriter)
    \/ \E t \in Threads \ {OrderWriter} :
           \/ \E o \in OrderOptionsInputs : Configure(t, o)
           \/ ConfigureStackTrace(t)
           \/ ConfigureLogCallers(t)
           \/ \E fails \in BOOLEAN : ConfigurePrepZap(t, fails)
           \/ ConfigureStore(t)
           \/ ConfigureGlobals(t)
           \/ ReplaceExitLoad(t)
           \/ ReplaceExitStore(t)

SpecOrder == Init /\ [][OrderNext]_vars

(***************************************************************************)
(* SpecLevels: the two name maps of options.go lines 53-69, applied to     *)
(* names and to Levels, one after the other.                               *)
(***************************************************************************)
\* The names handed to the parsing: the six names, and others.
NameInputs ==
    levelListString \cup {"", "bogus", "DEBUG", "Info", "warning", "trace",
                          "0", "none "}

\* level, ok := stringToLevel[s], as updateLogger reads it (lines 189, 196).
ParseName(t, s) ==
    /\ CanStart(t)
    /\ ops' = ops + 1
    /\ LET f == [NoFrame EXCEPT !.op = "parse", !.name = s,
                                !.parsed = LookupLevel(s)]
       IN  IF f.parsed.ok
           THEN /\ frame' = Own(t, f)
                /\ pc' = [pc EXCEPT ![t] = "parse.name"]
           ELSE /\ frame' = Own(t, Return(f))
                /\ pc' = pc
    /\ UNCHANGED <<outputLevel, stackTraceLevel, logCallers, funcs, nextId,
                   zapGlobal, exited, defaultLogger, sinkLog, handles>>

\* levelToString[level] for the level just parsed.
NameParsed(t) ==
    /\ Running /\ pc[t] = "parse.name"
    /\ frame' = Own(t, Return([frame[t] EXCEPT !.named =
                                   levelToString[frame[t].parsed.level]]))
    /\ pc' = [pc EXCEPT ![t] = "idle"]
    /\ UNCHANGED <<outputLevel, stackTraceLevel, logCallers, funcs, nextId,
                   zapGlobal, exited, ops, defaultLogger, sinkLog, handles>>

\* levelToString[lv], as DefaultOptions reads it (lines 148-149).
FormatLevel(t, lv) ==
    /\ CanStart(t)
    /\ ops' = ops + 1
    /\ frame' = Own(t, [NoFrame EXCEPT !.op = "format", !.lvl = lv,
                                       !.name = levelToString[lv]])
    /\ pc' = [pc EXCEPT ![t] = "format.parse"]
    /\ UNCHANGED <<outputLevel, stackTraceLevel, logCallers, funcs, nextId,
                   zapGlobal, exited, defaultLogger, sinkLog, handles>>

\* stringToLevel[name] for the name just formatted.
ParseFormatted(t) ==
    /\ Running /\ pc[t] = "format.parse"
    /\ frame' = Own(t, Return([frame[t] EXCEPT !.parsed =
                                   LookupLevel(frame[t].name)]))
    /\ pc' = [pc EXCEPT ![t] = "idle"]
    /\ UNCHANGED <<outputLevel, stackTraceLevel, logCallers, funcs, nextId,
                   zapGlobal, exited, ops, defaultLogger, sinkLog, handles>>

LevelsNext ==
    \E t \in Threads :
        \/ \E s \in NameInputs : ParseName(t, s)
        \/ NameParsed(t)
        \/ \E lv \in Levels : FormatLevel(t, lv)
        \/ ParseFormatted(t)

SpecLevels == Init /\ [][LevelsNext]_vars

(***************************************************************************)
(* SpecSinks: Configure with output paths that are files, and Sync and     *)
(* Close.                                                                  *)
(***************************************************************************)
\* The Options values handed to Configure under SpecSinks: the defaults,
\* and the defaults with the output path a file that can be opened or one
\* that cannot.
SinkOptionsInputs ==
    { DefaultOptions,
      [DefaultOptions EXCEPT !.OutputPath = "/log/app.log"],
      [DefaultOptions EXCEPT !.OutputPath = "/log/app.log",
                             !.OutputLevel = "debug",
                             !.LogCaller = TRUE],
      [DefaultOptions EXCEPT !.OutputPath = "/nodir/app.log"] }

SinksNext ==
    \E t \in Threads :
        \/ \E o \in SinkOptionsInputs : Configure(t, o)
        \/ ConfigureStackTrace(t)
        \/ ConfigureLogCallers(t)
        \/ \E fails \in BOOLEAN : ConfigurePrepZap(t, fails)
        \/ ConfigureStore(t)
        \/ ConfigureGlobals(t)
        \/ SyncLoad(t)
        \/ SyncRun(t)
        \/ CloseLoad(t)
        \/ CloseRun(t)

SpecSinks == Init /\ [][SinksNext]_vars

(***************************************************************************)
(* SpecCapture: the calls of config_test.go's TestCapture.  The goroutines *)
(* set the default logger's output level, call the logger's methods, and   *)
(* hand entries to zap's global logger and to the standard log package.    *)
(***************************************************************************)
CaptureNext ==
    \E t \in Threads :
        \/ \E level \in Levels : SetOutputLevel(t, DefaultLoggerName, level)
        \/ \E m \in Methods : LogCall(t, DefaultLoggerName, m)
        \/ LogCallers(t)
        \/ LogStack(t)
        \/ LogLoad(t)
        \/ \E err \in BOOLEAN : LogWrite(t, err)
        \/ LogExit(t)
        \/ \E via \in ZapSources :
               \E z \in ZapEntryLevels(via) : ZapEntry(t, via, z)
        \/ ZapEnabled(t)
        \/ ZapCheck(t)
        \/ \E err \in BOOLEAN : ZapWrite(t, err)

SpecCapture == Init /\ [][CaptureNext]_vars

(***************************************************************************)
(* SpecBeep: the calls of logger_test.go's TestBasic.  The goroutines set  *)
(* the output level, the stack-trace level and the caller flag of the      *)
(* default logger and of the logger "beep", replace the exit function of   *)
(* the installed table, and call the methods of both loggers.              *)
(***************************************************************************)
BeepNext ==
    \E t \in Threads :
        \/ \E l \in Loggers, m \in Methods : LogCall(t, l, m)
        \/ LogCallers(t)
        \/ LogStack(t)
        \/ LogLoad(t)
        \/ \E err \in BOOLEAN : LogWrite(t, err)
        \/ LogExit(t)
        \/ \E l \in Loggers, level \in Levels : SetOutputLevel(t, l, level)
        \/ \E l \in Loggers, level \in Levels :
               SetStackTraceLevel(t, l, level)
        \/ \E l \in Loggers, b \in BOOLEAN : SetLogCallers(t, l, b)
        \/ ReplaceExitLoad(t)
        \/ ReplaceExitStore(t)

SpecBeep == Init /\ [][BeepNext]_vars

(***************************************************************************)
(* SpecGate: the goroutines set the default logger's output level, call    *)
(* Configure, and ask the gated core of zap's global logger whether it     *)
(* takes an entry of a level.                                              *)
(***************************************************************************)
GateNext ==
    \E t \in Threads :
        \/ \E level \in Levels : SetOutputLevel(t, DefaultLoggerName, level)
        \/ \E z \in ZapLevels : CoreEnabled(t, z)
        \/ \E o \in OptionsInputs : Configure(t, o)
        \/ ConfigureStackTrace(t)
        \/ ConfigureLogCallers(t)
        \/ \E fails \in BOOLEAN : ConfigurePrepZap(t, fails)
        \/ ConfigureStore(t)
        \/ ConfigureGlobals(t)

SpecGate == Init /\ [][GateNext]_vars

(***************************************************************************)
(* SpecRotate: Configure with and without a rotating log file beside the   *)
(* output path, log calls that write through the installed table, and      *)
(* Sync and Close.                                                         *)
(***************************************************************************)
RotatePath == "/log/rotate.log"

\* The Options values handed to Configure under SpecRotate: what
\* DefaultOptions() returns, as it is, with the rotating file named (as the
\* flag log_rotate_path does, options.go line 159), and with the rotating
\* file named and the output path emptied or a file.
RotateOptionsInputs ==
    { DefaultOptions,
      [DefaultOptions EXCEPT !.RotateOutputPath = RotatePath],
      [DefaultOptions EXCEPT !.OutputPath = "",
                             !.RotateOutputPath = RotatePath],
      [DefaultOptions EXCEPT !.OutputPath = "/log/app.log",
                             !.RotateOutputPath = RotatePath,
                             !.JSONEncoding = TRUE] }

RotateMethods == {"Info", "Errorf", "Debug"}

RotateNext ==
    \E t \in Threads :
        \/ \E o \in RotateOptionsInputs : Configure(t, o)
        \/ ConfigureStackTrace(t)
        \/ ConfigureLogCallers(t)
        \/ \E fails \in BOOLEAN : ConfigurePrepZap(t, fails)
        \/ ConfigureStore(t)
        \/ ConfigureGlobals(t)
        \/ \E m \in RotateMethods : LogCall(t, DefaultLoggerName, m)
        \/ LogCallers(t)
        \/ LogStack(t)
        \/ LogLoad(t)
        \/ \E err \in BOOLEAN : LogWrite(t, err)
        \/ SyncLoad(t)
        \/ SyncRun(t)
        \/ CloseLoad(t)
        \/ CloseRun(t)

SpecRotate == Init /\ [][RotateNext]_vars

(***************************************************************************)
(* Vocabulary of the properties.                                           *)
(***************************************************************************)
\* The ordering of the levels as the specification states it, by name.
LevelOrdering == <<"none", "fatal", "error", "warn", "info", "debug">>

LevelNames == {LevelOrdering[i] : i \in DOMAIN LevelOrdering}

RankOfName(name) == CHOOSE i \in DOMAIN LevelOrdering : LevelOrdering[i] = name

\* The level a logging method logs at, by name.
MethodLevelName(m) ==
    CASE m \in {"Debug", "Debugf"} -> "debug"
      [] m \in {"Info", "Infof"}   -> "info"
      [] m \in {"Warn", "Warnf"}   -> "warn"
      [] m \in {"Error", "Errorf"} -> "error"
      [] m \in {"Fatal", "Fatalf"} -> "fatal"

\* T >= L for the threshold T a log call read and the level L of its method.
ThresholdAdmits(f) ==
    RankOfName(levelToString[f.loaded]) >= RankOfName(MethodLevelName(f.method))

IsLogCall(t) == frame[t].op = "log"

IsFatalCall(t) == IsLogCall(t) /\ frame[t].method \in {"Fatal", "Fatalf"}

IsConfigure(t) == frame[t].op = "configure"

\* The operation of goroutine t is over: it returned, or it ended the
\* process itself.
Finished(t) == frame[t].ret \/ (exited /\ frame[t].exits > 0)

\* The default logger and the register are as Configure of t found them.
LoggerAsBefore(t) ==
    /\ outputLevel[DefaultLoggerName] = frame[t].pre.outputLevel
    /\ stackTraceLevel[DefaultLoggerName] = frame[t].pre.stackTraceLevel
    /\ logCallers[DefaultLoggerName] = frame[t].pre.logCallers

TableAsBefore(t) == funcs = frame[t].pre.funcs

(***************************************************************************)
(* C1.  Claim: every call to Fatal or Fatalf invokes the exit function     *)
(* with status 1 exactly once, for every output threshold, None included.  *)
(***************************************************************************)
\* C1 as claimed: a finished Fatal or Fatalf call has called exit exactly
\* once, with status 1, whatever threshold it read.  A call that reads the
\* threshold None returns from line 125 or 132 without calling output, and
\* with it neither a write function nor the exit function.
C1_FatalAlwaysExits ==
    \A t \in Threads :
        IsFatalCall(t) /\ Finished(t) =>
            frame[t].exits = 1 /\ frame[t].exitCode = 1

(***************************************************************************)
(* C2.  Claim: the write operation, the exit operation and the error sink  *)
(* one log call uses all belong to the same installed snapshot.            *)
(***************************************************************************)
\* C2 as claimed: whenever a log call has called an exit function, it is
\* the exit function of the table whose write function it called, and so
\* is the error sink it reported on.
C2_WriteExitSinkOneSnapshot ==
    \A t \in Threads :
        IsLogCall(t) =>
            /\ frame[t].exits > 0 => frame[t].exitFrom = frame[t].writeFrom
            /\ frame[t].diags > 0 => frame[t].diagFrom = frame[t].writeFrom

\* C2 amended: the write function and the error sink of one log call are
\* those of the one table the call loaded; the exit function is that of
\* the table installed when the sink write has returned, which is the
\* loaded table or one installed after it.
C2_WriteAndSinkOneSnapshot ==
    \A t \in Threads :
        IsLogCall(t) =>
            /\ frame[t].writes > 0 => frame[t].writeFrom = frame[t].ft.id
            /\ frame[t].diags > 0 => frame[t].diagFrom = frame[t].writeFrom
            /\ frame[t].exits > 0 =>
                   /\ frame[t].exitFrom >= frame[t].writeFrom
                   /\ frame[t].exitFrom < nextId
            /\ (exited /\ pc[t] = "exit" /\ frame[t].exits > 0) =>
                   frame[t].exitFrom = funcs.id

\* A Fatal call whose write failed reported on the error sink of the table
\* it loaded and called the exit function of a later table.
C2_Witness ==
    \E t \in Threads :
        /\ IsFatalCall(t) /\ frame[t].ret
        /\ frame[t].diags = 1 /\ frame[t].diagFrom = frame[t].ft.id
        /\ frame[t].exits = 1 /\ frame[t].exitFrom > frame[t].writeFrom

(***************************************************************************)
(* C3.  Claim: for a Fatal entry handed to the write function, exit is     *)
(* invoked only after the sink write has returned, with status 1, whether  *)
(* the sink write succeeded or failed.                                     *)
(***************************************************************************)
\* C3: a log call calls an exit function only once its sink write has
\* returned, and with status 1; and a finished call that handed a Fatal
\* entry to a write function has called exit once, whatever the sink write
\* returned.
C3_ExitAfterWrite ==
    \A t \in Threads :
        IsLogCall(t) =>
            /\ frame[t].exits > 0 =>
                   /\ frame[t].exitAfter
                   /\ frame[t].writes = 1
                   /\ frame[t].exitCode = 1
            /\ (IsFatalCall(t) /\ Finished(t) /\ frame[t].writes > 0) =>
                   frame[t].exits = 1

\* A Fatal call whose sink write failed has called the exit function after
\* it, and has returned.
C3_Witness ==
    \E t \in Threads :
        /\ IsFatalCall(t) /\ frame[t].ret
        /\ frame[t].writes = 1 /\ frame[t].writeErr
        /\ frame[t].exits = 1 /\ frame[t].exitAfter /\ frame[t].exitCode = 1

(***************************************************************************)
(* C4.  Claim: a log call at level L hands an entry to the write function  *)
(* if and only if T >= L, T the output level read at the call.             *)
(***************************************************************************)
\* C4: a log call hands at most one entry to a write function, none unless
\* the threshold it read admits its level, and a finished call whose
\* threshold admits its level has handed one.
C4_WriteIffThresholdAdmits ==
    \A t \in Threads :
        IsLogCall(t) =>
            /\ frame[t].writes <= 1
            /\ frame[t].writes > 0 => ThresholdAdmits(frame[t])
            /\ (Finished(t) /\ ThresholdAdmits(frame[t])) => frame[t].writes = 1

\* An Infof call under threshold Info has written, and a Debugf call under
\* the same threshold has returned without writing.
C4_Witness ==
    \E t, u \in Threads :
        /\ IsLogCall(t) /\ frame[t].method = "Infof" /\ frame[t].ret
        /\ frame[t].loaded = InfoLevel /\ frame[t].writes = 1
        /\ IsLogCall(u) /\ frame[u].method = "Debugf" /\ frame[u].ret
        /\ frame[u].loaded = InfoLevel /\ frame[u].writes = 0

(***************************************************************************)
(* C5.  Claim: when Configure fails on an unrecognized output-level or     *)
(* stack-trace-level name, the default logger's output level, stack-trace  *)
(* level and caller flag and the installed table are as before the call.   *)
(***************************************************************************)
\* C5 as claimed: after Configure returned InvalidLevel, with no other
\* goroutine storing meanwhile, the default logger's three settings and
\* the installed table are what the call found.
C5_InvalidLevelLeavesAllAsBefore ==
    \A t \in Threads :
        (/\ IsConfigure(t) /\ frame[t].ret
         /\ frame[t].result = "InvalidLevel"
         /\ ~frame[t].setBy /\ ~frame[t].storedBy) =>
            LoggerAsBefore(t) /\ TableAsBefore(t)

(***************************************************************************)
(* C6.  Claim: when sink assembly fails during Configure, Configure        *)
(* returns the error and the installed table is the snapshot of before.    *)
(***************************************************************************)
\* C6: after Configure returned SinkOpenError, with no other goroutine
\* storing a table meanwhile, the register holds the table the call found;
\* and a Configure that has not come to its Store has stored nothing.
C6_SinkFailureKeepsTable ==
    \A t \in Threads :
        /\ (/\ IsConfigure(t) /\ frame[t].ret
            /\ frame[t].result = "SinkOpenError"
            /\ ~frame[t].storedBy) => TableAsBefore(t)
        /\ (/\ IsConfigure(t) /\ ~PrepZapOk(frame[t].opts)
            /\ frame[t].ret) => frame[t].result # "ok"

\* A Configure whose output path cannot be opened has returned the error.
C6_Witness ==
    \E t \in Threads :
        /\ IsConfigure(t) /\ frame[t].ret
        /\ frame[t].result = "SinkOpenError"
        /\ ~frame[t].storedBy /\ TableAsBefore(t)

(***************************************************************************)
(* C7.  Claim: when Configure fails because a path cannot be opened, the   *)
(* default logger's output level, stack-trace level and caller flag are    *)
(* unchanged by the failed call.                                           *)
(***************************************************************************)
\* C7 as claimed: after Configure returned SinkOpenError, with no other
\* goroutine setting meanwhile, the default logger's three settings are
\* what the call found.
C7_SinkFailureLeavesLoggerAsBefore ==
    \A t \in Threads :
        (/\ IsConfigure(t) /\ frame[t].ret
         /\ frame[t].result = "SinkOpenError"
         /\ ~frame[t].setBy) => LoggerAsBefore(t)

(***************************************************************************)
(* C8.  Claim: every log call that passes its enablement check results in  *)
(* exactly one invocation of a write function of a snapshot installed at   *)
(* some point during the call, also when Configure runs concurrently.      *)
(***************************************************************************)
\* C8: a finished log call whose threshold admitted its level has called
\* a write function exactly once, that of a table installed no earlier
\* than the one installed when the call began and no later than the last
\* one stored; no log call calls a write function twice.
C8_ExactlyOneWrite ==
    \A t \in Threads :
        IsLogCall(t) =>
            /\ frame[t].writes <= 1
            /\ (Finished(t) /\ MethodEnabled(frame[t].method, frame[t].loaded)) =>
                   /\ frame[t].writes = 1
                   /\ frame[t].writeFrom >= frame[t].startId
                   /\ frame[t].writeFrom < nextId

\* A log call has written through a table that a concurrent Configure
\* installed after the call began.
C8_Witness ==
    \E t, u \in Threads :
        /\ IsLogCall(t) /\ frame[t].ret /\ frame[t].writes = 1
        /\ frame[t].writeFrom > frame[t].startId
        /\ IsConfigure(u) /\ frame[u].ft.id = frame[t].writeFrom

(***************************************************************************)
(* C9.  Claim: Configure returns an error whenever Options.OutputLevel or  *)
(* Options.StackTraceLevel is not one of the six level names.              *)
(***************************************************************************)
\* C9 as claimed: a Configure that returned with an OutputLevel or a
\* StackTraceLevel outside the six names returned an error.
C9_UnnamedLevelRejected ==
    \A t \in Threads :
        (/\ IsConfigure(t) /\ frame[t].ret
         /\ \/ frame[t].opts.OutputLevel \notin LevelNames
            \/ frame[t].opts.StackTraceLevel \notin LevelNames) =>
            frame[t].result # "ok"

\* C9 amended: a Configure that returned with an OutputLevel outside the
\* six names, or with a non-empty StackTraceLevel outside them, returned
\* InvalidLevel; the empty StackTraceLevel is accepted.
C9_UnnamedLevelRejectedUnlessEmpty ==
    \A t \in Threads :
        (IsConfigure(t) /\ frame[t].ret) =>
            /\ (\/ frame[t].opts.OutputLevel \notin LevelNames
                \/ /\ frame[t].opts.StackTraceLevel # ""
                   /\ frame[t].opts.StackTraceLevel \notin LevelNames) =>
                   frame[t].result = "InvalidLevel"
            /\ frame[t].result = "InvalidLevel" =>
                   \/ frame[t].opts.OutputLevel \notin LevelNames
                   \/ frame[t].opts.StackTraceLevel \notin LevelNames \cup {""}

\* A Configure with a good OutputLevel and the StackTraceLevel "bogus" has
\* returned InvalidLevel.
C9_Witness ==
    \E t \in Threads :
        /\ IsConfigure(t) /\ frame[t].ret
        /\ frame[t].opts.OutputLevel \in LevelNames
        /\ frame[t].opts.StackTraceLevel = "bogus"
        /\ frame[t].result = "InvalidLevel"

(***************************************************************************)
(* C10.  Claim: after Configure(o) returns success with no concurrent      *)
(* setter, the default logger's output level is the level named by         *)
(* o.OutputLevel, its stack-trace level the level named by                 *)
(* o.StackTraceLevel and its caller flag o.LogCaller.                      *)
(***************************************************************************)
\* C10 as claimed: after a successful Configure(o), no other goroutine
\* setting meanwhile, the names of the default logger's output level and
\* stack-trace level are o.OutputLevel and o.StackTraceLevel, and its
\* caller flag is o.LogCaller.
C10_SettingsAreThoseOfOptions ==
    \A t \in Threads :
        (/\ IsConfigure(t) /\ frame[t].ret /\ frame[t].result = "ok"
         /\ ~frame[t].setBy) =>
            /\ levelToString[outputLevel[DefaultLoggerName]]
                   = frame[t].opts.OutputLevel
            /\ levelToString[stackTraceLevel[DefaultLoggerName]]
                   = frame[t].opts.StackTraceLevel
            /\ logCallers[DefaultLoggerName] = frame[t].opts.LogCaller

\* C10 amended: as claimed, except that for the empty o.StackTraceLevel
\* the stack-trace level is the one the call found.
C10_SettingsAreThoseOfOptionsUnlessEmpty ==
    \A t \in Threads :
        (/\ IsConfigure(t) /\ frame[t].ret /\ frame[t].result = "ok"
         /\ ~frame[t].setBy) =>
            /\ levelToString[outputLevel[DefaultLoggerName]]
                   = frame[t].opts.OutputLevel
            /\ IF frame[t].opts.StackTraceLevel = ""
               THEN stackTraceLevel[DefaultLoggerName]
                        = frame[t].pre.stackTraceLevel
               ELSE levelToString[stackTraceLevel[DefaultLoggerName]]
                        = frame[t].opts.StackTraceLevel
            /\ logCallers[DefaultLoggerName] = frame[t].opts.LogCaller

\* A successful Configure has changed all three settings.
C10_Witness ==
    \E t \in Threads :
        /\ IsConfigure(t) /\ frame[t].ret /\ frame[t].result = "ok"
        /\ ~frame[t].setBy
        /\ frame[t].opts.StackTraceLevel # ""
        /\ outputLevel[DefaultLoggerName] # frame[t].pre.outputLevel
        /\ stackTraceLevel[DefaultLoggerName] # frame[t].pre.stackTraceLevel
        /\ logCallers[DefaultLoggerName] # frame[t].pre.logCallers

(***************************************************************************)
(* C11.  Claim: a log call at Debug, Info, Warn or Error level never       *)
(* invokes the exit function and an enabled Fatal-level call does: after   *)
(* any log call, exit was called if and only if the call was at Fatal      *)
(* level.                                                                  *)
(***************************************************************************)
\* C11 as claimed: a finished log call has called an exit function if and
\* only if its method is Fatal or Fatalf.  The calls at the four other
\* levels never call one, and an enabled Fatal call does; a Fatal call
\* that reads the threshold None is a log call too, and it returns from
\* line 125 or 132 without calling one (the divergence of C1).
C11_ExitIffFatal ==
    \A t \in Threads :
        (IsLogCall(t) /\ Finished(t)) =>
            (frame[t].exits > 0 <=> IsFatalCall(t))

(***************************************************************************)
(* C12.  Claim: when the output threshold is None, no call at any level    *)
(* produces output: no logger method writes to the sink, and entries that  *)
(* arrive through zap's global logger or the standard log package are      *)
(* discarded too, without Configure being called again.                    *)
(***************************************************************************)
IsZapCall(t) == frame[t].op = "zap"

C13_FailedWriteReported ==
    \A t \in Threads :
        (IsLogCall(t) /\ frame[t].writeErr /\ Finished(t)) =>
            /\ frame[t].ret
            /\ frame[t].diags = 1
            /\ frame[t].diagFrom = frame[t].ft.id

\* C13 amended: a log call whose sink write failed and that has returned
\* has written one diagnostic line, on the error sink of the table it
\* loaded; such a call fails to return only when it is a Fatal call whose
\* exit function ended the process, and then no diagnostic line has been
\* written.  A call whose sink write did not fail writes none.
C13_FailedWriteReportedUnlessExit ==
    \A t \in Threads :
        IsLogCall(t) =>
            /\ (frame[t].writeErr /\ frame[t].ret) =>
                   /\ frame[t].diags = 1
                   /\ frame[t].diagFrom = frame[t].ft.id
                   /\ frame[t].diagSink = frame[t].ft.errorSink
            /\ (frame[t].writeErr /\ ~frame[t].ret) =>
                   /\ frame[t].diags = 0
                   /\ IsFatalCall(t) /\ pc[t] = "exit"
                   /\ frame[t].exits > 0 => exited
            /\ ~frame[t].writeErr => frame[t].diags = 0

\* An Errorf call whose sink write failed has returned, with one
\* diagnostic line written.
C13_Witness ==
    \E t \in Threads :
        /\ IsLogCall(t) /\ frame[t].method = "Errorf"
        /\ frame[t].writeErr /\ frame[t].ret
        /\ frame[t].diags = 1 /\ frame[t].diagFrom = frame[t].ft.id

(***************************************************************************)
(* C14.  Claim: the error sink of the snapshot installed by Configure is   *)
(* the target named by Options.ErrorOutputPath, so with OutputPath =       *)
(* stdout and ErrorOutputPath = stderr the write-error diagnostics go to   *)
(* stderr and not to stdout.                                               *)
(***************************************************************************)
\* C14 as claimed: the table a successful Configure(o) stored has the
\* target o.ErrorOutputPath as its error sink; and a log call that loaded
\* a table made for OutputPath = stdout and ErrorOutputPath = stderr (all
\* Options of Spec name stderr) wrote its diagnostic line to stderr.
\* Line 81 opens the error sink from options.OutputPath.
C14_ErrorSinkIsErrorOutputPath ==
    \A t \in Threads :
        /\ (IsConfigure(t) /\ frame[t].result = "ok") =>
               frame[t].ft.errorSink = frame[t].opts.ErrorOutputPath
        /\ (/\ IsLogCall(t) /\ frame[t].diags > 0
            /\ frame[t].ft.sink = {DefaultOutputPath}) =>
               frame[t].diagSink = DefaultErrorOutputPath

(***************************************************************************)
(* C15.  Claim: whenever Configure returns an error from sink assembly,    *)
(* every sink handle that was opened during that call has been closed      *)
(* before the error is returned; no handle opened by a failed Configure    *)
(* stays open.                                                             *)
(***************************************************************************)
\* The files of h with a number in ns that are open.
OpenAmong(h, ns) == {n \in ns \cap DOMAIN h : h[n].open}

\* C15: when Configure has returned SinkOpenError, none of the files it
\* opened is open.
C15_FailedConfigureClosesHandles ==
    \A t \in Threads :
        (/\ IsConfigure(t) /\ frame[t].ret
         /\ frame[t].result = "SinkOpenError") =>
            OpenAmong(handles, frame[t].opened) = {}

\* A Configure whose error sink was opened from a file and whose output
\* sink could not be opened has returned the error, the file closed.
C15_Witness ==
    \E t \in Threads :
        /\ IsConfigure(t) /\ frame[t].ret
        /\ frame[t].result = "SinkOpenError"
        /\ frame[t].opened # {}
        /\ \A n \in frame[t].opened :
               handles[n].path = frame[t].opts.OutputPath /\ ~handles[n].open

(***************************************************************************)
(* C16.  Claim: the logger instance behind the package-level log functions *)
(* is created on the first Configure and is never replaced afterwards:     *)
(* after any sequence of Configure calls, successful or failed, the        *)
(* default logger is the same object, so a reference taken earlier         *)
(* observes every later threshold change.                                  *)
(***************************************************************************)
HoldsRef(t) == frame[t].op = "ref"

\* C16: defaultLogger is nil until init() has called Configure and from
\* then on is the logger that call made; every pointer a goroutine took
\* is the logger that defaultLogger points to, whose thresholds Configure
\* sets.
C16_DefaultLoggerNeverReplaced ==
    /\ ~Booted => defaultLogger = NilLogger
    /\ Booted => defaultLogger = EnsureDefaultLogger(NilLogger)
    /\ \A t \in Threads : HoldsRef(t) => frame[t].ref = defaultLogger

\* A goroutine took the pointer under the table of init(); then a
\* Configure that succeeded set the threshold Error and a Configure with
\* the output level "bogus" failed; the pointer is still defaultLogger.
C16_Witness ==
    \E t, u \in Threads :
        /\ HoldsRef(t) /\ frame[t].startId = 0 /\ funcs.id = 1
        /\ frame[t].ref = defaultLogger
        /\ IsConfigure(u) /\ frame[u].ret
        /\ frame[u].opts.OutputLevel = "bogus"
        /\ frame[u].result = "InvalidLevel"
        /\ outputLevel[DefaultLoggerName] = ErrorLevel

(***************************************************************************)
(* C17.  Claim: log calls issued one after another by a single thread      *)
(* reach the sink in the order they were issued: each call returns only    *)
(* after its write function has returned, so the entries of one thread are *)
(* never reordered in the sink, also when another thread runs Configure in *)
(* between.                                                                *)
(***************************************************************************)
\* The places in the sinks of the entries of goroutine t with message n.
PlacesOf(t, n) ==
    {i \in DOMAIN sinkLog : sinkLog[i].by = t /\ sinkLog[i].msg = n}

Behaviour(ft) ==
    [write |-> ft.write, exitProcess |-> ft.exitProcess,
     errorSink |-> ft.errorSink, sink |-> ft.sink, encoder |-> ft.encoder]

\* The default logger's settings and the behaviour of the table of
\* snapshot s.
Observable(s) ==
    [outputLevel |-> s.outputLevel, stackTraceLevel |-> s.stackTraceLevel,
     logCallers |-> s.logCallers, table |-> Behaviour(s.funcs)]

\* What Configure of u left when it returned is its own work: the table
\* is the one it stored and the settings are those it stored from its
\* Options, which no setter has changed before the call returned.
OwnWork(u) ==
    /\ frame[u].post.funcs = frame[u].ft
    /\ levelToString[frame[u].post.outputLevel] = frame[u].opts.OutputLevel
    /\ frame[u].opts.StackTraceLevel # "" =>
           levelToString[frame[u].post.stackTraceLevel]
               = frame[u].opts.StackTraceLevel
    /\ frame[u].post.logCallers = frame[u].opts.LogCaller

\* Configure of u returned nil, then Configure of t ran with the same
\* Options and returned nil, and no other goroutine stored a setting or a
\* table during the two calls or between them.
TwiceInARow(u, t) ==
    /\ u # t
    /\ IsConfigure(u) /\ frame[u].result = "ok"
    /\ OwnWork(u)
    /\ IsConfigure(t) /\ frame[t].result = "ok"
    /\ frame[t].opts = frame[u].opts
    /\ frame[t].pre = frame[u].post
    /\ ~frame[t].setBy /\ ~frame[t].storedBy

\* C18: what the second of two such calls left is what the first left,
\* but for the number of the table.
C18_ConfigureTwiceAsOnce ==
    \A t, u \in Threads :
        TwiceInARow(u, t) =>
            /\ Observable(frame[t].post) = Observable(frame[u].post)
            /\ frame[t].post.funcs.id > frame[u].post.funcs.id

\* Two Configure calls in a row with the caller flag set, JSON encoding
\* and an empty stack-trace level have both returned nil.
C18_Witness ==
    \E t, u \in Threads :
        /\ TwiceInARow(u, t)
        /\ frame[t].opts.LogCaller /\ frame[t].opts.JSONEncoding
        /\ frame[t].opts.StackTraceLevel = ""
        /\ frame[t].post.funcs.encoder = "json"
        /\ frame[t].post.funcs = funcs

(***************************************************************************)
(* C19.  Claim: the level-to-name and name-to-level mappings are inverse   *)
(* bijections over the six levels: for every Level, parsing its name       *)
(* yields that Level, and for every recognized name, the name of the       *)
(* parsed Level is that name; any other string is rejected.                *)
(***************************************************************************)
Formatted(t) == frame[t].op = "format" /\ frame[t].ret

Parsed(t) == frame[t].op = "parse" /\ frame[t].ret

\* C19: the name of a Level is one of the six names, and parsing it yields
\* the Level; the parsing of one of the six names yields a Level whose name
\* it is; the parsing of any other string fails; and two Levels that were
\* given one name, or two names that were parsed to one Level, are the
\* same.
C19_NameMapsAreInverse ==
    \A t \in Threads :
        /\ Formatted(t) =>
               /\ frame[t].name \in LevelNames
               /\ frame[t].parsed.ok /\ frame[t].parsed.level = frame[t].lvl
        /\ (Parsed(t) /\ frame[t].name \in LevelNames) =>
               /\ frame[t].parsed.ok /\ frame[t].parsed.level \in Levels
               /\ frame[t].named = frame[t].name
        /\ (Parsed(t) /\ frame[t].name \notin LevelNames) =>
               ~frame[t].parsed.ok
        /\ \A u \in Threads :
               /\ (Formatted(t) /\ Formatted(u)
                      /\ frame[t].name = frame[u].name) =>
                      frame[t].lvl = frame[u].lvl
               /\ (Parsed(t) /\ Parsed(u) /\ frame[t].parsed.ok
                      /\ frame[u].parsed.ok
                      /\ frame[t].parsed.level = frame[u].parsed.level) =>
                      frame[t].name = frame[u].name

\* The Level Warn was given its name and parsed back, and the string
\* "DEBUG" was rejected.
C19_Witness ==
    \E t, u \in Threads :
        /\ Formatted(t) /\ frame[t].lvl = WarnLevel
        /\ frame[t].name = "warn" /\ frame[t].parsed.level = WarnLevel
        /\ Parsed(u) /\ frame[u].name = "DEBUG" /\ ~frame[u].parsed.ok

(***************************************************************************)
(* C20.  Claim: Sync and Close each act on the snapshot that is installed  *)
(* at the moment they are called (never on a superseded one); Close        *)
(* flushes best-effort and releases the snapshot's resources.              *)
(***************************************************************************)
IsSyncOrClose(t) == frame[t].op \in {"sync", "close"}

\* The files that the Configure calls whose frames are at hand opened for
\* the table with number k.
FilesOfTable(k) ==
    UNION {frame[u].opened : u \in {v \in Threads :
                                      IsConfigure(v) /\ frame[v].ft.id = k}}

\* C20 as claimed: a Sync or Close that has returned has synced the sink
\* of the table that was installed when it was called; and after a Close
\* none of the files opened for that table is open.  The close function
\* of lines 149-153 syncs and returns nil: it closes nothing.
C20_SyncCloseActOnInstalled ==
    \A t \in Threads :
        /\ (IsSyncOrClose(t) /\ frame[t].ret) =>
               /\ frame[t].ft.id = frame[t].startId
               /\ frame[t].synced = frame[t].ft.core
        /\ (frame[t].op = "close" /\ frame[t].ret) =>
               OpenAmong(handles, FilesOfTable(frame[t].ft.id)) = {}

(***************************************************************************)
(* C21.  Claim: DefaultOptions returns stdout output, stderr error output, *)
(* output level info, stack-trace level none, caller logging off, and      *)
(* rotation limits of 100 megabytes, 30 days and 1000 backups, where the   *)
(* size limit is the value handed to the rotating writer in megabytes (so  *)
(* RotationMaxSize = 100).                                                 *)
(***************************************************************************)
\* C21 as claimed: a Configure called with what DefaultOptions() returned
\* has the Options named in the claim, RotationMaxSize = 100 among them;
\* and when only the rotating file has been named in those Options, the
\* rotating writer of the table Configure stored has the limits 100 (in
\* megabytes), 1000 backups and 30 days.  DefaultRotationMaxSize is
\* 100 * 1024 * 1024 (options.go line 31), and prepZap hands it to the
\* rotating writer as it is (config.go line 75).
C21_DefaultOptionsAsDocumented ==
    \A t \in Threads :
        /\ (IsConfigure(t) /\ frame[t].opts = DefaultOptions) =>
               /\ frame[t].opts.OutputPath = "stdout"
               /\ frame[t].opts.ErrorOutputPath = "stderr"
               /\ frame[t].opts.RotateOutputPath = ""
               /\ frame[t].opts.OutputLevel = "info"
               /\ frame[t].opts.StackTraceLevel = "none"
               /\ frame[t].opts.LogCaller = FALSE
               /\ frame[t].opts.RotationMaxSize = 100
               /\ frame[t].opts.RotationMaxAge = 30
               /\ frame[t].opts.RotationMaxBackups = 1000
        /\ (/\ IsConfigure(t) /\ frame[t].result = "ok"
            /\ frame[t].opts =
                   [DefaultOptions EXCEPT !.RotateOutputPath = RotatePath]) =>
               frame[t].ft.rotater = << [Filename   |-> RotatePath,
                                         MaxSize    |-> 100,
                                         MaxBackups |-> 1000,
                                         MaxAge     |-> 30] >>

(***************************************************************************)
(* C22.  Claim: for each level L in {Debug, Info, Warn, Error, Fatal}, the *)
(* level-gated core built by Configure accepts an entry at level L if and  *)
(* only if the default logger's current output level is >= L at the time   *)
(* of that entry, so a SetOutputLevel after Configure changes what the     *)
(* gated core accepts without another Configure.                           *)
(***************************************************************************)
IsCoreQuery(t) == frame[t].op = "enabled"

\* C22 as claimed: the gated core has accepted the level of an entry if
\* and only if the output level the enabler loaded from the default logger
\* was at or above that level, for each of the five levels.  The switch
\* of lines 107-114 has no case for the Fatal level, which falls to
\* DebugEnabled (line 115).
C22_GatedCoreFollowsOutputLevel ==
    \A t \in Threads :
        IsCoreQuery(t) =>
            (frame[t].accepted <=> frame[t].loaded >= toLevel[frame[t].level])

(***************************************************************************)
(* C23.  Claim: the installed write function writes every entry handed to  *)
(* it, at any level and whatever the default logger's current output level *)
(* is; filtering happens only in the calling logger's own enablement       *)
(* check, so a logger other than the default one with threshold Debug      *)
(* emits Debug entries while the default logger's threshold is Info.       *)
(***************************************************************************)
\* No goroutine but t has started an operation: the settings of the
\* loggers are those that t's operation found.
Alone(t) == \A u \in Threads \ {t} : frame[u].op = "none"

\* The entries in the sinks that goroutine t wrote for the logger l.
EntriesOf(t, l) ==
    {i \in DOMAIN sinkLog :
        sinkLog[i].by = t /\ sinkLog[i].scope = EntryLoggerName(l)}

\* C23: a log call of either logger hands its entry to a write function
\* if and only if the threshold it read from its own logger admits its
\* level, whatever the default logger's output level is; an entry whose
\* sink write returned no error is in the sinks, under the name of its
\* logger; and with no other goroutine at work, a finished call has
\* written exactly when the output level of its own logger is at or above
\* its level.
C23_WriteTakesEveryEntry ==
    \A t \in Threads :
        IsLogCall(t) =>
            /\ frame[t].writes > 0 => ThresholdAdmits(frame[t])
            /\ (Finished(t) /\ ThresholdAdmits(frame[t])) =>
                   frame[t].writes = 1
            /\ (frame[t].writes > 0 /\ ~frame[t].writeErr) =>
                   EntriesOf(t, frame[t].logger) # {}
            /\ (Alone(t) /\ Finished(t)) =>
                   (frame[t].writes = 1 <=>
                        outputLevel[frame[t].logger]
                            >= MethodGuardLevel(frame[t].method))

\* The goroutine has set the threshold of "beep" to Debug and its Debug
\* call has written an entry named beep, while the default logger's
\* threshold has been Info throughout.
C23_Witness ==
    \E t \in Threads :
        /\ Alone(t) /\ ops = 2 /\ nextId = 1
        /\ IsLogCall(t) /\ frame[t].logger = "beep"
        /\ frame[t].method = "Debug" /\ frame[t].ret
        /\ frame[t].loaded = DebugLevel
        /\ outputLevel[DefaultLoggerName] = InfoLevel
        /\ frame[t].writes = 1 /\ ~frame[t].writeErr
        /\ Len(sinkLog) = 1 /\ sinkLog[1].scope = "beep"

(***************************************************************************)
(* C24.  Claim: an emitted entry carries a caller location if and only if  *)
(* the logger's caller flag is true when the entry is built, and carries a *)
(* stack trace if and only if the logger's stack-trace level is >= the     *)
(* entry's level; with stack-trace level None no entry at any level        *)
(* carries a stack trace.                                                  *)
(***************************************************************************)
\* The log call of t has handed its entry to a write function.
Emitted(t) == IsLogCall(t) /\ frame[t].writes > 0

\* C24: an emitted entry carries a stack trace if and only if the
\* stack-trace level that output loaded from the entry's logger is at or
\* above the entry's level in the ordering of the levels, and none when
\* that level is None; and with no other goroutine at work, it carries a
\* caller exactly when the caller flag of its logger is true, and a stack
\* trace exactly when the stack-trace level of its logger is at or above
\* its level.
C24_CallerAndStackFollowSettings ==
    \A t \in Threads :
        Emitted(t) =>
            /\ frame[t].stack <=>
                   RankOfName(levelToString[frame[t].stackRead])
                       >= RankOfName(MethodLevelName(frame[t].method))
            /\ frame[t].stackRead = NoneLevel => ~frame[t].stack
            /\ Alone(t) =>
                   /\ frame[t].caller <=> logCallers[frame[t].logger]
                   /\ frame[t].stackRead = stackTraceLevel[frame[t].logger]
                   /\ stackTraceLevel[frame[t].logger] = NoneLevel =>
                          ~frame[t].stack

\* The goroutine has set the stack-trace level of "beep" to Error, and
\* its Error entry was emitted with a stack trace and without a caller.
C24_Witness ==
    \E t \in Threads :
        /\ Alone(t) /\ Emitted(t) /\ frame[t].ret
        /\ frame[t].logger = "beep" /\ frame[t].method = "Error"
        /\ stackTraceLevel["beep"] = ErrorLevel
        /\ frame[t].stackRead = ErrorLevel
        /\ frame[t].stack /\ ~frame[t].caller

(***************************************************************************)
(* C25.  Claim: replacing only the exit function in the installed function *)
(* table (load the table, change exitProcess, store it back) makes every   *)
(* later Fatal write invoke the replacement exit function and not the      *)
(* process exit, without rebuilding the write function; a following        *)
(* successful Configure installs the real process exit again.              *)
(***************************************************************************)
\* C25: the exit function a log call has called is that of the table
\* installed at that moment: that of the table the call loaded when no
\* table was stored in between, and that of the register while it holds
\* that table still.  A call that called the replacement has returned,
\* the process alive unless another call ended it with os.Exit; a call
\* that called os.Exit has ended the process.  A table with the
\* replacement keeps the write function of the table it was made from;
\* and the table of a Configure that returned nil has os.Exit.
C25_ReplacedExitIsCalled ==
    /\ funcs.exitProcess = "testExit" =>
           funcs.write /\ funcs.core >= 0 /\ funcs.core < funcs.id
    /\ \A t \in Threads :
           /\ (IsLogCall(t) /\ frame[t].exits > 0) =>
                  /\ frame[t].exitFrom = frame[t].ft.id =>
                         frame[t].exitFn = frame[t].ft.exitProcess
                  /\ frame[t].exitFrom = funcs.id =>
                         frame[t].exitFn = funcs.exitProcess
                  /\ frame[t].exitFn = "testExit" => frame[t].ret
                  /\ frame[t].exitFn = "os.Exit" => exited /\ ~frame[t].ret
                  /\ frame[t].writeFrom = frame[t].ft.id
           /\ (IsConfigure(t) /\ frame[t].result = "ok") =>
                  /\ frame[t].ft.exitProcess = "os.Exit"
                  /\ ~frame[t].storedBy => funcs.exitProcess = "os.Exit"

\* A goroutine has replaced the exit function of the table of init(), and
\* a Fatal call that started afterwards has written through the write
\* function of init()'s table, has called the replacement and has
\* returned; the process is alive.
C25_Witness ==
    \E t, u \in Threads :
        /\ frame[u].op = "replaceExit" /\ frame[u].ret
        /\ IsFatalCall(t) /\ frame[t].ret /\ ~exited
        /\ frame[t].startId = 1 /\ frame[t].ft.id = 1
        /\ frame[t].ft.core = 0 /\ frame[t].ft.exitProcess = "testExit"
        /\ frame[t].writes = 1 /\ frame[t].exits = 1
        /\ frame[t].exitFn = "testExit"

(***************************************************************************)
(* C26.  Claim: with both OutputPath and RotateOutputPath set, each        *)
(* written entry goes to both targets; with only one of the two set (the   *)
(* other empty), Configure succeeds and each entry goes to that one target *)
(* alone.                                                                  *)
(***************************************************************************)
\* The targets that the Options o name for the entries.
TargetsOf(o) == {o.OutputPath, o.RotateOutputPath} \ {""}

\* C26 as claimed: a Configure whose Options name just one of the two
\* targets, once it has returned, has returned nil; the table a Configure
\* stored writes to the targets its Options name; and every entry in the
\* sinks went to the targets named by the Options of the Configure that
\* stored the table it was written through.  With the rotating file alone
\* named, the zap.Open of line 81 is handed the empty OutputPath and
\* fails, and Configure returns its error.
C26_EntriesGoToConfiguredTargets ==
    \A t \in Threads :
        /\ (/\ IsConfigure(t) /\ frame[t].ret
            /\ Cardinality(TargetsOf(frame[t].opts)) = 1) =>
               frame[t].result = "ok"
        /\ (IsConfigure(t) /\ frame[t].result = "ok") =>
               frame[t].ft.sink = TargetsOf(frame[t].opts)
        /\ \A i \in DOMAIN sinkLog :
               (IsConfigure(t) /\ frame[t].ft.id = sinkLog[i].table) =>
                   sinkLog[i].sink = TargetsOf(frame[t].opts)

(***************************************************************************)
(* C27.  Claim: after a successful Configure returns, every log call, Sync *)
(* and Close that starts afterwards (and before the next replacement of    *)
(* the table) uses the function table built by that Configure, never the   *)
(* one it superseded.                                                      *)
(***************************************************************************)
\* The operation of t is a log call, a Sync or a Close that has loaded a
\* table.
UsesTable(t) ==
    frame[t].op \in {"log", "sync", "close"} /\ frame[t].ft # NoTable

\* C27: a Configure that returned nil has stored its table, a new one,
\* and the register holds it unless another goroutine has stored one; a
\* log call, Sync or Close that started when that table or a later one
\* was installed has loaded that table or a later one, that table itself
\* when the register still holds it, and has written or synced through
\* the table it loaded.
C27_LaterCallsUseInstalledTable ==
    \A u \in Threads :
        (IsConfigure(u) /\ frame[u].result = "ok") =>
            /\ frame[u].ft.id > frame[u].startId
            /\ frame[u].ft.id < nextId
            /\ ~frame[u].storedBy => funcs = frame[u].ft
            /\ \A t \in Threads \ {u} :
                   (UsesTable(t) /\ frame[t].startId >= frame[u].ft.id) =>
                       /\ frame[t].ft.id >= frame[u].ft.id
                       /\ funcs = frame[u].ft => frame[t].ft = frame[u].ft
                       /\ frame[t].writes > 0 =>
                              frame[t].writeFrom = frame[t].ft.id
                       /\ frame[t].synced >= 0 =>
                              frame[t].synced = frame[t].ft.core

\* A Configure that names the rotating file has returned nil, and a log
\* call that started after it has written through the table it stored.
C27_Witness ==
    \E t, u \in Threads :
        /\ IsConfigure(u) /\ frame[u].result = "ok"
        /\ frame[u].opts.RotateOutputPath = RotatePath
        /\ IsLogCall(t) /\ frame[t].ret
        /\ frame[t].startId = frame[u].ft.id
        /\ frame[t].writes = 1 /\ frame[t].writeFrom = frame[u].ft.id
        /\ frame[t].ft = frame[u].ft

(***************************************************************************)
(* C28.  Claim: Configure with an empty StackTraceLevel string succeeds    *)
(* and leaves the default logger's stack-trace level at the value it had   *)
(* before the call, while still overwriting the output level and the       *)
(* caller flag from the Options.                                           *)
(***************************************************************************)
\* Configure of t was called with the empty StackTraceLevel, one of the
\* six names as OutputLevel and a standard stream as OutputPath.
EmptyStackTraceLevel(t) ==
    /\ IsConfigure(t)
    /\ frame[t].opts.StackTraceLevel = ""
    /\ frame[t].opts.OutputLevel \in LevelNames
    /\ frame[t].opts.OutputPath \in {"stdout", "stderr"}

\* C28: such a Configure, once it has returned, has returned nil; with no
\* other goroutine setting meanwhile, the stack-trace level is the one
\* the call found, at every moment of the call and after it; and after
\* the call the output level is the one named by the Options and the
\* caller flag that of the Options.
C28_EmptyStackTraceLevelKept ==
    \A t \in Threads :
        EmptyStackTraceLevel(t) =>
            /\ frame[t].ret => frame[t].result = "ok"
            /\ ~frame[t].setBy =>
                   stackTraceLevel[DefaultLoggerName]
                       = frame[t].pre.stackTraceLevel
            /\ (frame[t].ret /\ ~frame[t].setBy) =>
                   /\ levelToString[outputLevel[DefaultLoggerName]]
                          = frame[t].opts.OutputLevel
                   /\ logCallers[DefaultLoggerName] = frame[t].opts.LogCaller

\* A Configure with the empty StackTraceLevel has returned nil under the
\* stack-trace level Debug, which it left, and has changed the output
\* level and the caller flag.
C28_Witness ==
    \E t \in Threads :
        /\ EmptyStackTraceLevel(t) /\ frame[t].ret /\ ~frame[t].setBy
        /\ frame[t].result = "ok"
        /\ frame[t].pre.stackTraceLevel = DebugLevel
        /\ stackTraceLevel[DefaultLoggerName] = DebugLevel
        /\ outputLevel[DefaultLoggerName] # frame[t].pre.outputLevel
        /\ logCallers[DefaultLoggerName] # frame[t].pre.logCallers

(***************************************************************************)
(* C29.  Claim: in every state reachable after package initialization, the *)
(* function table register holds a complete table (write, sync, exit,      *)
(* close and error sink all set) and the default logger's output level,    *)
(* stack-trace level and caller flag have all been stored, so no log call, *)
(* enablement query, Sync or Close ever reads an unset value.              *)
(***************************************************************************)
\* The table ft has its write function, its exit function and its error
\* sink, and a core for its sync and close functions to sync.
Complete(ft) ==
    /\ ft.write
    /\ ft.exitProcess # "nil"
    /\ ft.errorSink # "nil"
    /\ ft.core >= 0
    /\ ft.sink # {}

\* The three fields of the logger l have been stored.
HasStored(l) ==
    l \in DOMAIN outputLevel \cap DOMAIN stackTraceLevel \cap DOMAIN logCallers

\* C29: once init() has run, the register holds a complete table,
\* defaultLogger is not nil and its three fields have been stored; no
\* operation starts before init() has run; and every table that a log
\* call, a Sync or a Close has loaded is complete.
C29_NothingUnsetAfterInit ==
    /\ Booted =>
           /\ Complete(funcs)
           /\ defaultLogger # NilLogger
           /\ HasStored(DefaultLoggerName)
    /\ \A t \in Threads :
           /\ frame[t].op # "none" => Booted
           /\ UsesTable(t) => Complete(frame[t].ft)

\* After init(), a Configure has failed at its sinks and a log call that
\* started afterwards has read the settings and written through a
\* complete table.
C29_Witness ==
    \E t, u \in Threads :
        /\ Booted
        /\ IsConfigure(u) /\ frame[u].ret
        /\ frame[u].result = "SinkOpenError"
        /\ IsLogCall(t) /\ frame[t].ret /\ frame[t].writes = 1
        /\ Complete(frame[t].ft) /\ HasStored(DefaultLoggerName)

(***************************************************************************)
(* C30.  Claim: when two Configure calls with different Options run        *)
(* concurrently and both succeed, then after both have returned the        *)
(* default logger's thresholds and caller flag and the installed function  *)
(* table all come from the same one of the two calls.                      *)
(***************************************************************************)
\* The Configure calls of t and u ran concurrently: each started before
\* the other stored its table.
Concurrent(t, u) ==
    /\ frame[t].startId < frame[u].ft.id
    /\ frame[u].startId < frame[t].ft.id

\* The default logger's settings and the installed table are those that
\* the Configure of w made from its Options.
AllFrom(w) ==
    /\ funcs = frame[w].ft
    /\ levelToString[outputLevel[DefaultLoggerName]] = frame[w].opts.OutputLevel
    /\ frame[w].opts.StackTraceLevel # "" =>
           levelToString[stackTraceLevel[DefaultLoggerName]]
               = frame[w].opts.StackTraceLevel
    /\ logCallers[DefaultLoggerName] = frame[w].opts.LogCaller

\* C30 as claimed: when two Configure calls with different Options that
\* ran concurrently have both returned nil, the settings and the table
\* are all those of one of the two.  Configure takes no lock: the three
\* stores of updateLogger and the Store of the table of one call
\* interleave with those of the other.
C30_ConcurrentConfiguresAgree ==
    \A t, u \in Threads :
        (/\ t # u
         /\ IsConfigure(t) /\ frame[t].result = "ok"
         /\ IsConfigure(u) /\ frame[u].result = "ok"
         /\ frame[t].opts # frame[u].opts
         /\ Concurrent(t, u)) =>
            AllFrom(t) \/ AllFrom(u)

=============================================================================
